---------------------------- MODULE Spec2Model ----------------------------
(***************************************************************************)
(* Model of code/filesystem/fs_misc.c (Chomenor/ioq3 new filesystem):      *)
(* the generic hash table, the pk3 list built on it, the file-disabled     *)
(* checks, the sort-key writers and the core pak verification.             *)
(*                                                                         *)
(* Conventions                                                             *)
(*  - An unsigned int is a pair <<hi, lo>> of 16-bit halves (value =       *)
(*    hi * 65536 + lo), so that all 32 bits are kept without leaving the   *)
(*    integers TLC can hold.                                               *)
(*  - A C string is a sequence of byte values without the final NUL.       *)
(*  - A pointer is a positive id, 0 is the null pointer.                   *)
(***************************************************************************)
EXTENDS Integers, Sequences, FiniteSets, TLC

VARIABLES
    ht,         \* fs_hashtable_t: bucket_count, buckets (pointer), element_count
    arrays,     \* the bucket arrays on the heap: pointer -> contents (<<>> when not allocated)
    heap,       \* the entries on the heap: pointer -> [alloc, next, hash, position]
    iterator,   \* a caller's fs_hashtable_iterator_t (a local of the caller)
    yielded,    \* what fs_hashtable_next has returned since the last fs_hashtable_iterate
    inserted,   \* the entries handed to fs_hashtable_insert since the table was last emptied
    first_pos,  \* hashes given to pk3_list_insert since the list was initialized, in order of first insertion
    init_bc,    \* the bucket count and bucket array given by the last fs_hashtable_initialize
    call,       \* the last call: its name, its arguments and what it returned
    prev,       \* the call before it (hash table: its name and how many entries it released)
    cfg,        \* the cvars and globals the filesystem reads
    servercfg,  \* servercfg_cvar_mod_count, servercfg_folder_count, servercfg_folders
    sort_table, \* the static table of get_string_sort_table
    fsfiles     \* the files of the index, in the order the iterators return them

htvars == <<ht, arrays, heap, iterator, yielded, inserted, first_pos, init_bc>>
fsvars == <<cfg, servercfg, sort_table, fsfiles>>
vars == <<ht, arrays, heap, iterator, yielded, inserted, first_pos, init_bc, call, prev,
          cfg, servercfg, sort_table, fsfiles>>

-----------------------------------------------------------------------------
(* Bounds of the model *)

MaxBuckets == 2     \* bucket counts 1..MaxBuckets
MaxEntries == 3     \* entries the allocator can hand out
MaxArrays  == 2     \* bucket arrays the allocator can hand out
MaxHash    == 2     \* the hashes 0..MaxHash are used as keys

-----------------------------------------------------------------------------
(* unsigned int *)

U32(n) == <<n \div 65536, n % 65536>>

\* hash % n for an int n > 0 (the usual arithmetic conversions make it unsigned)
U32Mod(h, n) == (((h[1] % n) * (65536 % n)) + h[2]) % n

\* ~value
U32Not(h) == <<65535 - h[1], 65535 - h[2]>>

HashKeys == {U32(n) : n \in 0..MaxHash} \cup {<<65535, 65535>>}

-----------------------------------------------------------------------------
(* Hash Table *)

EntryIds == 1..MaxEntries
ArrayIds == 1..MaxArrays

NullEntry == [alloc |-> FALSE, next |-> 0, hash |-> U32(0), position |-> 0]
NoIterator == [active |-> FALSE, current_bucket |-> 0, bucket_limit |-> 0,
               current_entry |-> 0, hash |-> U32(0), iterate_all |-> FALSE, done |-> FALSE]
ZeroTable == [bucket_count |-> 0, buckets |-> 0, element_count |-> 0]

\* The contents of the table's bucket array (nothing for a null pointer).
Buckets(table, arr) == IF table.buckets = 0 THEN <<>> ELSE arr[table.buckets]

FreeEntryIds(hp) == {e \in EntryIds : ~hp[e].alloc}
FreeArrayIds(arr, table) == {a \in ArrayIds : arr[a] = <<>>}

Min(S) == CHOOSE x \in S : \A y \in S : x <= y

\* fs_hashtable_initialize: the table gets a zeroed array of bucket_count buckets.
fs_hashtable_initialize(table, arr, bucket_count) ==
    LET a == Min(FreeArrayIds(arr, table))
    IN  [ht |-> [bucket_count |-> bucket_count, buckets |-> a, element_count |-> 0],
         arrays |-> [arr EXCEPT ![a] = [i \in 1..bucket_count |-> 0]]]

\* The bucket fs_hashtable_insert picks.
BucketIndexBug(table, hash) == U32Mod(hash, MaxBuckets + 1) % table.bucket_count
BucketIndex(table, hash) == U32Mod(hash, table.bucket_count)

\* fs_hashtable_insert: entry becomes the head of bucket hash % bucket_count.
fs_hashtable_insert(table, arr, hp, entry, hash) ==
    LET index == BucketIndex(table, hash)
    IN  [ht |-> [table EXCEPT !.element_count = @ + 1],
         arrays |-> [arr EXCEPT ![table.buckets][index + 1] = entry],
         heap |-> [hp EXCEPT ![entry].next = arr[table.buckets][index + 1]]]

\* fs_hashtable_iterate
fs_hashtable_iterate(table, hash, iterate_all) ==
    IF table.bucket_count = 0 \/ iterate_all
    THEN [active |-> TRUE, current_bucket |-> 0, bucket_limit |-> table.bucket_count,
          current_entry |-> 0, hash |-> hash, iterate_all |-> iterate_all, done |-> FALSE]
    ELSE [active |-> TRUE, current_bucket |-> U32Mod(hash, table.bucket_count),
          bucket_limit |-> U32Mod(hash, table.bucket_count) + 1,
          current_entry |-> 0, hash |-> hash, iterate_all |-> iterate_all, done |-> FALSE]

\* fs_hashtable_next: the entry returned (0 at the end) and the iterator afterwards.
RECURSIVE fs_hashtable_next(_, _, _, _)
fs_hashtable_next(table, arr, hp, it) ==
    IF it.current_entry # 0
    THEN [ret |-> it.current_entry,
          it |-> [it EXCEPT !.current_entry = hp[it.current_entry].next]]
    ELSE IF it.current_bucket >= it.bucket_limit
    THEN [ret |-> 0, it |-> [it EXCEPT !.done = TRUE]]
    ELSE fs_hashtable_next(table, arr, hp,
            [it EXCEPT !.current_entry = Buckets(table, arr)[it.current_bucket + 1],
                       !.current_bucket = @ + 1])


\* fs_hashtable_free_entries: every entry the iteration over all buckets returns is
\* released (by free_entry or Z_Free). freed lists them in order; double_free tells
\* whether one of them was not allocated any more when it was released.
RECURSIVE FreeEntriesLoop(_, _, _, _, _, _)
FreeEntriesLoop(table, arr, hp, it, freed, double_free) ==
    LET r == fs_hashtable_next(table, arr, hp, it)
    IN  IF r.ret = 0
        THEN [heap |-> hp, freed |-> freed, double_free |-> double_free]
        ELSE FreeEntriesLoop(table, arr, [hp EXCEPT ![r.ret] = NullEntry], r.it,
                             Append(freed, r.ret), double_free \/ ~hp[r.ret].alloc)

fs_hashtable_free_entries(table, arr, hp) ==
    FreeEntriesLoop(table, arr, hp, fs_hashtable_iterate(table, U32(0), TRUE), <<>>, FALSE)

\* fs_hashtable_free: the entries and the bucket array are released, the table is zeroed.
fs_hashtable_free(table, arr, hp) ==
    LET f == fs_hashtable_free_entries(table, arr, hp)
    IN  [ht |-> ZeroTable,
         arrays |-> IF table.buckets # 0 THEN [arr EXCEPT ![table.buckets] = <<>>] ELSE arr,
         heap |-> f.heap, freed |-> f.freed, double_free |-> f.double_free]

\* What fs_hashtable_reset leaves in the bucket array.
ResetBucketsKeep(table, arr) == arr
ResetBuckets(table, arr) ==
    IF table.buckets # 0
    THEN [arr EXCEPT ![table.buckets] = [i \in 1..table.bucket_count |-> 0]]
    ELSE arr

\* fs_hashtable_reset: the entries are released, the buckets zeroed, the array kept.
fs_hashtable_reset(table, arr, hp) ==
    LET f == fs_hashtable_free_entries(table, arr, hp)
    IN  [ht |-> [table EXCEPT !.element_count = 0],
         arrays |-> ResetBuckets(table, arr),
         heap |-> f.heap, freed |-> f.freed, double_free |-> f.double_free]

\* Everything an iteration returns until fs_hashtable_next returns 0.
RECURSIVE Drain(_, _, _, _)
Drain(table, arr, hp, it) ==
    LET r == fs_hashtable_next(table, arr, hp, it)
    IN  IF r.ret = 0 THEN <<>> ELSE <<r.ret>> \o Drain(table, arr, hp, r.it)

-----------------------------------------------------------------------------
(* Pk3 List *)

\* The loop of pk3_list_lookup: the position of the first entry with this hash.
RECURSIVE LookupLoop(_, _, _, _, _)
LookupLoop(table, arr, hp, it, hash) ==
    LET r == fs_hashtable_next(table, arr, hp, it)
    IN  IF r.ret = 0 THEN 0
        ELSE IF hp[r.ret].hash = hash THEN hp[r.ret].position
        ELSE LookupLoop(table, arr, hp, r.it, hash)

pk3_list_lookup(table, arr, hp, hash) ==
    LookupLoop(table, arr, hp, fs_hashtable_iterate(table, hash, FALSE), hash)

\* pk3_list_insert: nothing for a hash pk3_list_lookup finds, else a new entry whose
\* position is the element count after its insertion.
NewPositionBefore(table) == table.element_count - 1
NewPosition(table) == table.element_count

pk3_list_insert_always(table, arr, hp, hash) ==
    LET new_entry == Min(FreeEntryIds(hp))
        ins == fs_hashtable_insert(table, arr, [hp EXCEPT ![new_entry].alloc = TRUE],
                                   new_entry, hash)
    IN  [ht |-> ins.ht, arrays |-> ins.arrays,
         heap |-> [ins.heap EXCEPT ![new_entry].hash = hash,
                                   ![new_entry].position = NewPosition(ins.ht)]]
pk3_list_insert(table, arr, hp, hash) ==
    IF pk3_list_lookup(table, arr, hp, hash) # 0
    THEN [ht |-> table, arrays |-> arr, heap |-> hp]
    ELSE LET new_entry == Min(FreeEntryIds(hp))
             ins == fs_hashtable_insert(table, arr, [hp EXCEPT ![new_entry].alloc = TRUE],
                                        new_entry, hash)
         IN  [ht |-> ins.ht, arrays |-> ins.arrays,
              heap |-> [ins.heap EXCEPT ![new_entry].hash = hash,
                                        ![new_entry].position = NewPosition(ins.ht)]]

\* Whether pk3_list_insert needs memory for a new entry.
PkNeedsEntry(table, arr, hp, hash) == pk3_list_lookup(table, arr, hp, hash) = 0

-----------------------------------------------------------------------------
(* Strings *)

Str_empty       == <<>>
Str_baseq3      == <<98, 97, 115, 101, 113, 51>>                          \* BASEGAME "baseq3"
Str_basemod     == <<98, 97, 115, 101, 109, 111, 100>>                    \* "basemod"
Str_missionpack == <<109, 105, 115, 115, 105, 111, 110, 112, 97, 99, 107>> \* BASETA "missionpack"
Str_abc         == <<97, 98, 99>>                                         \* "abc"
Str_ABC         == <<65, 66, 67>>                                         \* "ABC"
Str_xyz         == <<120, 121, 122>>                                      \* "xyz"
Str_abc_xyz     == <<97, 98, 99, 32, 120, 121, 122>>                      \* "abc xyz"
Str_xyz_abc     == <<120, 121, 122, 32, 97, 98, 99>>                      \* "xyz abc"
Str_dotdot      == <<46, 46>>                                             \* ".."
Str_dot_pk3     == <<46, 112, 107, 51>>                                   \* ".pk3"
Str_dot_cfg     == <<46, 99, 102, 103>>                                   \* ".cfg"
Str_default     == <<100, 101, 102, 97, 117, 108, 116>>                   \* "default"
Str_other       == <<122, 112, 97, 107>>                                  \* "zpak"

\* va("pak%i", i) for one digit
Str_pak(i) == <<112, 97, 107, 48 + i>>

\* tolower of one byte
ToLower(c) == IF c >= 65 /\ c <= 90 THEN c + 32 ELSE c

\* Q_stricmp(a, b) == 0
StrIEq(a, b) ==
    /\ Len(a) = Len(b)
    /\ \A i \in 1..Len(a) : ToLower(a[i]) = ToLower(b[i])

\* Q_strncpyz into a buffer of size bytes: at most size - 1 bytes are kept.
Q_strncpyz(src, size) == IF Len(src) > size - 1 THEN SubSeq(src, 1, size - 1) ELSE src

\* COM_ParseExt called until it returns an empty token: the words of the string.
IsSpace(c) == c <= 32
RECURSIVE SkipSpace(_)
SkipSpace(str) == IF str # <<>> /\ IsSpace(Head(str)) THEN SkipSpace(Tail(str)) ELSE str
RECURSIVE TakeWord(_)
TakeWord(str) == IF str = <<>> \/ IsSpace(Head(str)) THEN <<>> ELSE <<Head(str)>> \o TakeWord(Tail(str))
RECURSIVE Tokens(_)
Tokens(str) ==
    LET s1 == SkipSpace(str)
        w == TakeWord(s1)
    IN  IF w = <<>> THEN <<>> ELSE <<w>> \o Tokens(SubSeq(s1, Len(w) + 1, Len(s1)))

-----------------------------------------------------------------------------
(* Files *)

FSC_SOURCETYPE_DIRECT == "FSC_SOURCETYPE_DIRECT"
FSC_SOURCETYPE_PK3 == "FSC_SOURCETYPE_PK3"

\* A file on disk (fsc_file_direct_t). pk3dir is the name of the pk3dir it lies in
\* (empty: pk3dir_ptr is null); dlpk3 is FSC_FILEFLAG_DLPK3 in f.flags.
DirectFile(mod_dir, name, ext, pk3_hash, dlpk3, pk3dir) ==
    [sourcetype |-> FSC_SOURCETYPE_DIRECT, mod_dir |-> mod_dir, name |-> name, ext |-> ext,
     pk3_hash |-> pk3_hash, dlpk3 |-> dlpk3, pk3dir |-> pk3dir]

\* A file in a pk3 (fsc_file_frompk3_t): source_pk3 is the fsc_file_direct_t of the pk3.
Pk3File(source_pk3, name, ext, dlpk3, header_position) ==
    [sourcetype |-> FSC_SOURCETYPE_PK3, source_pk3 |-> source_pk3, name |-> name, ext |-> ext,
     dlpk3 |-> dlpk3, header_position |-> header_position]

\* fsc_get_base_file: the file itself, or the pk3 it comes from.
fsc_get_base_file(file) ==
    IF file.sourcetype = FSC_SOURCETYPE_PK3 THEN file.source_pk3 ELSE file

\* fsc_get_mod_dir: the mod directory of the file on disk.
fsc_get_mod_dir(file) == fsc_get_base_file(file).mod_dir

-----------------------------------------------------------------------------
(* Pk3 precedence functions *)

FSC_MAX_MODDIR == 32
MAX_SERVERCFG_FOLDERS == 32

MODTYPE_INACTIVE == 0
MODTYPE_BASE == 1
MODTYPE_OVERRIDE_DIRECTORY == 2
MODTYPE_CURRENT_MOD == 3

\* 1566731103, 298122907, 412165236, 2991495316, 1197932710, 4087071573, 3709064859,
\* 908855077, 977125798
core_hashes == << <<23906, 27487>>, <<4548, 65179>>, <<6289, 9332>>, <<45646, 39060>>,
                  <<18279, 166>>, <<62363, 50005>>, <<56595, 54939>>, <<13868, 1829>>,
                  <<14909, 49574>> >>

\* 2430342401, 511014160, 2662638993, 1438664554
missionpack_hashes == << <<37084, 5377>>, <<7797, 29968>>, <<40628, 42385>>, <<21952, 18282>> >>

FS_CORE_PAKS == core_hashes
FS_CORE_PAKS_TEAMARENA == core_hashes \o missionpack_hashes

\* PROCESS_PAKS: i + 1 for the first i with hash == hashes[i], no return without one.
PROCESS_PAKS(hashes, hash) ==
    IF \E i \in 1..Len(hashes) : hashes[i] = hash
    THEN Min({i \in 1..Len(hashes) : hashes[i] = hash})
    ELSE 0

\* FS_GetCurrentGameDir: the current mod directory, or the base game without one.
FS_GetCurrentGameDir(c) ==
    IF c.current_mod_dir # <<>> THEN c.current_mod_dir ELSE c.com_basegame

core_pk3_position(c, hash) ==
    IF StrIEq(FS_GetCurrentGameDir(c), Str_missionpack)
    THEN PROCESS_PAKS(FS_CORE_PAKS_TEAMARENA, hash)
    ELSE PROCESS_PAKS(FS_CORE_PAKS, hash)

\* fs_sanitize_mod_dir: the name cut to the buffer, or the empty string for a name
\* fs_generate_path refuses.
PathRefused(name) == \E i \in 1..Len(name) : name[i] \in {47, 92} \/ (name[i] = 46 /\ i < Len(name) /\ name[i + 1] = 46)
fs_sanitize_mod_dir(source) ==
    LET buffer == Q_strncpyz(source, FSC_MAX_MODDIR)
    IN  IF PathRefused(buffer) THEN <<>> ELSE buffer

fs_get_mod_type(c, mod_dir) ==
    LET sanitized_mod_dir == fs_sanitize_mod_dir(mod_dir)
    IN  IF sanitized_mod_dir # <<>> /\ StrIEq(sanitized_mod_dir, c.current_mod_dir)
        THEN MODTYPE_CURRENT_MOD
        ELSE IF StrIEq(sanitized_mod_dir, Str_basemod) THEN MODTYPE_OVERRIDE_DIRECTORY
        ELSE IF StrIEq(sanitized_mod_dir, c.com_basegame) THEN MODTYPE_BASE
        ELSE MODTYPE_INACTIVE

\* servercfg_cvar_mod_count = -1, servercfg_folder_count = 0
ServercfgStart == [cvar_mod_count |-> -1, folder_count |-> 0, folders |-> <<>>]

\* fs_servercfg_update_state: the folders are parsed again when the modification
\* count of fs_servercfg is not the one of the last parse.
fs_servercfg_update_state_once(sc, c) ==
    IF sc.cvar_mod_count = -1
    THEN LET tokens == Tokens(c.fs_servercfg.string)
             n == IF Len(tokens) > MAX_SERVERCFG_FOLDERS THEN MAX_SERVERCFG_FOLDERS
                  ELSE Len(tokens)
         IN  [cvar_mod_count |-> c.fs_servercfg.modificationCount,
              folder_count |-> n,
              folders |-> [i \in 1..n |-> Q_strncpyz(tokens[i], FSC_MAX_MODDIR)]]
    ELSE sc
fs_servercfg_update_state(sc, c) ==
    IF c.fs_servercfg.modificationCount # sc.cvar_mod_count
    THEN LET tokens == Tokens(c.fs_servercfg.string)
             n == IF Len(tokens) > MAX_SERVERCFG_FOLDERS THEN MAX_SERVERCFG_FOLDERS
                  ELSE Len(tokens)
         IN  [cvar_mod_count |-> c.fs_servercfg.modificationCount,
              folder_count |-> n,
              folders |-> [i \in 1..n |-> Q_strncpyz(tokens[i], FSC_MAX_MODDIR)]]
    ELSE sc

\* The loop of fs_servercfg_priority over the folders (i is 0-based in the source).
FolderRankReversed(sc, mod_dir) ==
    IF \E i \in 1..sc.folder_count : StrIEq(mod_dir, sc.folders[i])
    THEN Min({i \in 1..sc.folder_count : StrIEq(mod_dir, sc.folders[i])})
    ELSE 0
FolderRank(sc, mod_dir) ==
    IF \E i \in 1..sc.folder_count : StrIEq(mod_dir, sc.folders[i])
    THEN sc.folder_count - (Min({i \in 1..sc.folder_count : StrIEq(mod_dir, sc.folders[i])}) - 1)
    ELSE 0

\* The value v under the name of the parameter of F: v is computed once.
Bind(v, F(_)) == CHOOSE y \in {F(x) : x \in {v}} : TRUE

\* fs_servercfg_priority: the rank, and the static state after the call.
fs_servercfg_priority(sc, c, mod_dir) ==
    Bind(fs_servercfg_update_state(sc, c),
         LAMBDA sc2 : [ret |-> FolderRank(sc2, mod_dir), sc |-> sc2])

-----------------------------------------------------------------------------
(* File disabled check *)

FD_CHECK_PURE_LIST == 1
FD_CHECK_READ_INACTIVE_MODS == 2
FD_CHECK_READ_INACTIVE_MODS_IGNORE_SERVERCFG == 4
FD_CHECK_LIST_INACTIVE_MODS == 8
FD_CHECK_LIST_SERVERCFG_LIMIT == 16

\* checks & flag, for a flag of one bit
HasFlag(checks, flag) == (checks \div flag) % 2 = 1

\* connected_server_pure_list is the pk3 list held in pl = [ht, arrays, heap].
PureListLookup(pl, hash) == pk3_list_lookup(pl.ht, pl.arrays, pl.heap, hash)

get_pk3_list_position_any(pl, file) ==
    PureListLookup(pl, fsc_get_base_file(file).pk3_hash)
get_pk3_list_position(pl, file) ==
    IF file.sourcetype # FSC_SOURCETYPE_PK3 THEN 0
    ELSE PureListLookup(pl, fsc_get_base_file(file).pk3_hash)

\* inactive_mod_file_disabled: whether the file is disabled, and the static servercfg
\* state after the call.
inactive_mod_file_disabled_nocore(c, pl, sc, file, level, ignore_servercfg) ==
    IF level >= 2 THEN [ret |-> FALSE, sc |-> sc]
    ELSE IF fs_get_mod_type(c, fsc_get_mod_dir(file)) > MODTYPE_INACTIVE
    THEN [ret |-> FALSE, sc |-> sc]
    ELSE IF level = 1 /\ PureListLookup(pl, fsc_get_base_file(file).pk3_hash) # 0
    THEN [ret |-> FALSE, sc |-> sc]
    ELSE IF ~ignore_servercfg
    THEN Bind(fs_servercfg_priority(sc, c, fsc_get_mod_dir(file)),
              LAMBDA p : [ret |-> (p.ret = 0), sc |-> p.sc])
    ELSE [ret |-> TRUE, sc |-> sc]
inactive_mod_file_disabled(c, pl, sc, file, level, ignore_servercfg) ==
    IF level >= 2 THEN [ret |-> FALSE, sc |-> sc]
    ELSE IF fs_get_mod_type(c, fsc_get_mod_dir(file)) > MODTYPE_INACTIVE
    THEN [ret |-> FALSE, sc |-> sc]
    ELSE IF level = 1 /\ (\/ PureListLookup(pl, fsc_get_base_file(file).pk3_hash) # 0
                          \/ core_pk3_position(c, fsc_get_base_file(file).pk3_hash) # 0)
    THEN [ret |-> FALSE, sc |-> sc]
    ELSE IF ~ignore_servercfg
    THEN Bind(fs_servercfg_priority(sc, c, fsc_get_mod_dir(file)),
              LAMBDA p : [ret |-> (p.ret = 0), sc |-> p.sc])
    ELSE [ret |-> TRUE, sc |-> sc]

\* The servercfg list limit check of fs_file_disabled.
ServercfgLimitCheck(c, sc, file) ==
    IF c.fs_servercfg_listlimit # 0
    THEN Bind(fs_servercfg_priority(sc, c, fsc_get_mod_dir(file)),
              LAMBDA p :
                 IF p.ret = 0
                 THEN IF c.fs_servercfg_listlimit = 1
                      THEN [ret |-> core_pk3_position(c, fsc_get_base_file(file).pk3_hash) = 0,
                            sc |-> p.sc]
                      ELSE [ret |-> TRUE, sc |-> p.sc]
                 ELSE [ret |-> FALSE, sc |-> p.sc])
    ELSE [ret |-> FALSE, sc |-> sc]

\* The level of the list inactive mods check.
ListLevelOnly(c) == c.fs_list_inactive_mods
ListLevel(c) ==
    IF c.fs_read_inactive_mods < c.fs_list_inactive_mods
    THEN c.fs_read_inactive_mods ELSE c.fs_list_inactive_mods

\* The checks of fs_file_disabled, each with the static servercfg state before it.
ReadInactiveCheck(c, pl, sc, file, checks) ==
    IF HasFlag(checks, FD_CHECK_READ_INACTIVE_MODS)
    THEN inactive_mod_file_disabled(c, pl, sc, file, c.fs_read_inactive_mods, FALSE)
    ELSE [ret |-> FALSE, sc |-> sc]

ReadInactiveIgnoreCheck(c, pl, sc, file, checks) ==
    IF HasFlag(checks, FD_CHECK_READ_INACTIVE_MODS_IGNORE_SERVERCFG)
    THEN inactive_mod_file_disabled(c, pl, sc, file, c.fs_read_inactive_mods, TRUE)
    ELSE [ret |-> FALSE, sc |-> sc]

ListInactiveCheck(c, pl, sc, file, checks) ==
    IF HasFlag(checks, FD_CHECK_LIST_INACTIVE_MODS)
    THEN inactive_mod_file_disabled(c, pl, sc, file, ListLevel(c), FALSE)
    ELSE [ret |-> FALSE, sc |-> sc]

ListServercfgLimitCheck(c, sc, file, checks) ==
    IF HasFlag(checks, FD_CHECK_LIST_SERVERCFG_LIMIT)
    THEN ServercfgLimitCheck(c, sc, file)
    ELSE [ret |-> FALSE, sc |-> sc]

\* fs_file_disabled with the read inactive mods check ahead of the pure list check
fs_file_disabled_swapped(c, pl, sc, file, checks) ==
    Bind(ReadInactiveCheck(c, pl, sc, file, checks), LAMBDA r1 :
    IF r1.ret THEN [ret |-> FD_CHECK_READ_INACTIVE_MODS, sc |-> r1.sc]
    ELSE IF /\ HasFlag(checks, FD_CHECK_PURE_LIST)
            /\ c.pure_state = 1
            /\ get_pk3_list_position(pl, file) = 0
    THEN [ret |-> FD_CHECK_PURE_LIST, sc |-> r1.sc]
    ELSE [ret |-> 0, sc |-> r1.sc])

\* fs_file_disabled: the value of the first check that triggers, or 0, and the static
\* servercfg state after the call.
fs_file_disabled(c, pl, sc, file, checks) ==
    IF /\ HasFlag(checks, FD_CHECK_PURE_LIST)
       /\ c.pure_state = 1
       /\ get_pk3_list_position(pl, file) = 0
    THEN [ret |-> FD_CHECK_PURE_LIST, sc |-> sc]
    ELSE
    Bind(ReadInactiveCheck(c, pl, sc, file, checks), LAMBDA r1 :
    IF r1.ret THEN [ret |-> FD_CHECK_READ_INACTIVE_MODS, sc |-> r1.sc]
    ELSE
    Bind(ReadInactiveIgnoreCheck(c, pl, r1.sc, file, checks), LAMBDA r2 :
    IF r2.ret THEN [ret |-> FD_CHECK_READ_INACTIVE_MODS_IGNORE_SERVERCFG, sc |-> r2.sc]
    ELSE
    Bind(ListInactiveCheck(c, pl, r2.sc, file, checks), LAMBDA r3 :
    IF r3.ret THEN [ret |-> FD_CHECK_LIST_INACTIVE_MODS, sc |-> r3.sc]
    ELSE
    Bind(ListServercfgLimitCheck(c, r3.sc, file, checks), LAMBDA r4 :
    IF r4.ret THEN [ret |-> FD_CHECK_LIST_SERVERCFG_LIMIT, sc |-> r4.sc]
    ELSE [ret |-> 0, sc |-> r4.sc]))))

-----------------------------------------------------------------------------
(* Core Pak Verification *)

\* A file of the index is the pointer i to fsfiles[i]; 0 is the null pointer.

\* fsc_file_iterator_open(&fs, "", filename): the files of that name, in index order.
FileIterator(files, filename) ==
    {i \in 1..Len(files) : StrIEq(files[i].name, filename)}

\* fsc_pk3_iterator_open(&fs, hash): the pk3s on disk with that hash, in index order.
Pk3Iterator(files, hash) ==
    {i \in 1..Len(files) : /\ files[i].sourcetype = FSC_SOURCETYPE_DIRECT
                           /\ StrIEq(files[i].ext, Str_dot_pk3)
                           /\ files[i].pk3_hash = hash}

\* The first loop of get_pak_state, from file i of the iterator on. done: the loop
\* returned a file with the name and the hash.
NameMatchFirst(name_match, pk3) == IF name_match = 0 THEN pk3 ELSE name_match
NameMatchNext(name_match, pk3) == pk3

RECURSIVE NameLoop(_, _, _, _, _, _, _, _)
NameLoop(c, pl, sc, files, todo, mod, hash, name_match) ==
    IF todo = {} THEN [done |-> FALSE, name_match |-> name_match, hash_match |-> 0, sc |-> sc]
    ELSE
    LET i == Min(todo)
    IN  IF files[i].sourcetype # FSC_SOURCETYPE_DIRECT
        THEN NameLoop(c, pl, sc, files, todo \ {i}, mod, hash, name_match)
        ELSE
        Bind(fs_file_disabled(c, pl, sc, files[i], FD_CHECK_READ_INACTIVE_MODS), LAMBDA d :
        IF d.ret # 0
        THEN NameLoop(c, pl, d.sc, files, todo \ {i}, mod, hash, name_match)
        ELSE IF ~StrIEq(files[i].ext, Str_dot_pk3)
        THEN NameLoop(c, pl, d.sc, files, todo \ {i}, mod, hash, name_match)
        ELSE IF ~StrIEq(fsc_get_mod_dir(files[i]), mod)
        THEN NameLoop(c, pl, d.sc, files, todo \ {i}, mod, hash, name_match)
        ELSE IF files[i].pk3_hash = hash
        THEN [done |-> TRUE, name_match |-> i, hash_match |-> i, sc |-> d.sc]
        ELSE NameLoop(c, pl, d.sc, files, todo \ {i}, mod, hash, NameMatchNext(name_match, i)))

\* The second loop of get_pak_state: the first pk3 of the hash that is not disabled.
RECURSIVE HashLoop(_, _, _, _, _, _)
HashLoop(c, pl, sc, files, todo, name_match) ==
    IF todo = {} THEN [name_match |-> name_match, hash_match |-> 0, sc |-> sc]
    ELSE
    LET i == Min(todo)
    IN  Bind(fs_file_disabled(c, pl, sc, files[i], FD_CHECK_READ_INACTIVE_MODS), LAMBDA d :
        IF d.ret # 0 THEN HashLoop(c, pl, d.sc, files, todo \ {i}, name_match)
        ELSE [name_match |-> name_match, hash_match |-> i, sc |-> d.sc])

\* get_pak_state: the name match and the hash match of one pak, and the static
\* servercfg state after the call.
get_pak_state(c, pl, sc, files, mod, filename, hash) ==
    Bind(NameLoop(c, pl, sc, files, FileIterator(files, filename), mod, hash, 0), LAMBDA n :
    IF n.done THEN [name_match |-> n.name_match, hash_match |-> n.hash_match, sc |-> n.sc]
    ELSE HashLoop(c, pl, n.sc, files, Pk3Iterator(files, hash), n.name_match))

\* generate_pak_warnings: what is printed for one pak ("" for nothing), and whether a
\* line is appended to the warning popup.
generate_pak_warnings_notfound(state) ==
    IF state.hash_match # 0
    THEN IF state.name_match = 0
         THEN [print |-> "NOTE: misnamed, found correct file", popup |-> FALSE]
         ELSE IF state.name_match # state.hash_match
         THEN [print |-> "WARNING: incorrect hash, found correct file", popup |-> FALSE]
         ELSE [print |-> "", popup |-> FALSE]
    ELSE [print |-> "WARNING: not found", popup |-> TRUE]
generate_pak_warnings(state) ==
    IF state.hash_match # 0
    THEN IF state.name_match = 0
         THEN [print |-> "NOTE: misnamed, found correct file", popup |-> FALSE]
         ELSE IF state.name_match # state.hash_match
         THEN [print |-> "WARNING: incorrect hash, found correct file", popup |-> FALSE]
         ELSE [print |-> "", popup |-> FALSE]
    ELSE IF state.name_match # 0
         THEN [print |-> "WARNING: incorrect hash", popup |-> TRUE]
         ELSE [print |-> "WARNING: not found", popup |-> TRUE]

\* check_default_cfg_pk3: whether a pk3 of the given hash, or of the given name in the
\* given mod, holds default.cfg.
RECURSIVE DefaultCfgLoop(_, _, _, _, _, _, _, _)
DefaultCfgLoop(c, pl, sc, files, todo, mod, filename, hash) ==
    IF todo = {} THEN [ret |-> FALSE, sc |-> sc]
    ELSE
    LET i == Min(todo)
    IN  Bind(fs_file_disabled(c, pl, sc, files[i], FD_CHECK_READ_INACTIVE_MODS), LAMBDA d :
        LET rest == DefaultCfgLoop(c, pl, d.sc, files, todo \ {i}, mod, filename, hash)
        IN  IF d.ret # 0 THEN rest
            ELSE IF files[i].sourcetype # FSC_SOURCETYPE_PK3 THEN rest
            ELSE IF ~StrIEq(files[i].ext, Str_dot_cfg) THEN rest
            ELSE IF files[i].source_pk3.pk3_hash = hash THEN [ret |-> TRUE, sc |-> d.sc]
            ELSE IF ~StrIEq(fsc_get_mod_dir(files[i].source_pk3), mod) THEN rest
            ELSE IF StrIEq(files[i].source_pk3.name, filename) THEN [ret |-> TRUE, sc |-> d.sc]
            ELSE rest)

check_default_cfg_pk3(c, pl, sc, files, mod, filename, hash) ==
    DefaultCfgLoop(c, pl, sc, files, FileIterator(files, Str_default), mod, filename, hash)

\* The loops of fs_check_core_paks that fill core_states and missionpack_states.
RECURSIVE PakStates(_, _, _, _, _, _, _, _)
PakStates(c, pl, sc, files, mod, hashes, i, states) ==
    IF i > Len(hashes) THEN [states |-> states, sc |-> sc]
    ELSE Bind(get_pak_state(c, pl, sc, files, mod, Str_pak(i - 1), hashes[i]), LAMBDA st :
         PakStates(c, pl, st.sc, files, mod, hashes, i + 1,
                   Append(states, [name_match |-> st.name_match,
                                   hash_match |-> st.hash_match])))

\* The condition of the standalone check.
CheckStandaloneAlways(c) == TRUE
CheckStandalone(c) == ~StrIEq(c.com_basegame, Str_baseq3)

\* The default.cfg check of fs_check_core_paks: made when pak0 exists by name or hash.
DefaultCfgCheck(c, pl, sc, files, core_states) ==
    IF core_states[1].name_match # 0 \/ core_states[1].hash_match # 0
    THEN Bind(check_default_cfg_pk3(c, pl, sc, files, Str_baseq3, Str_pak(0), core_hashes[1]),
              LAMBDA dc : [warning |-> ~dc.ret, sc |-> dc.sc])
    ELSE [warning |-> FALSE, sc |-> sc]

\* fs_check_core_paks. standalone: Cvar_Set("com_standalone", "1") and return;
\* core_warnings, missionpack_warnings: what generate_pak_warnings did for each pak
\* it was called for; default_cfg_warning: the default.cfg warning was printed.
fs_check_core_paks(c, pl, sc, files) ==
    Bind(PakStates(c, pl, sc, files, Str_baseq3, core_hashes, 1, <<>>), LAMBDA cs :
    Bind(PakStates(c, pl, cs.sc, files, Str_missionpack, missionpack_hashes, 1, <<>>), LAMBDA ms :
    LET core_states == cs.states
        missionpack_states == ms.states
        missionpack_installed ==
            \E i \in 1..Len(missionpack_states) :
                missionpack_states[i].name_match # 0 \/ missionpack_states[i].hash_match # 0
        have_id_pak ==
            \/ \E i \in 1..Len(core_states) : core_states[i].hash_match # 0
            \/ \E i \in 1..Len(missionpack_states) : missionpack_states[i].hash_match # 0
    IN  IF CheckStandalone(c) /\ ~have_id_pak
        THEN [standalone |-> TRUE, core_states |-> core_states,
              missionpack_states |-> missionpack_states,
              core_warnings |-> <<>>, missionpack_warnings |-> <<>>,
              default_cfg_warning |-> FALSE, sc |-> ms.sc]
        ELSE Bind(DefaultCfgCheck(c, pl, ms.sc, files, core_states), LAMBDA dc :
             [standalone |-> FALSE, core_states |-> core_states,
              missionpack_states |-> missionpack_states,
              core_warnings |-> [i \in 1..Len(core_states) |->
                                    generate_pak_warnings(core_states[i])],
              missionpack_warnings |->
                  IF missionpack_installed
                  THEN [i \in 1..Len(missionpack_states) |->
                           generate_pak_warnings(missionpack_states[i])]
                  ELSE <<>>,
              default_cfg_warning |-> dc.warning,
              sc |-> dc.sc])))

-----------------------------------------------------------------------------
(* The calls on a hash table *)

Call(op, hash, ret, freed, failed) ==
    [op |-> op, hash |-> hash, ret |-> ret, freed |-> freed, assert_failed |-> failed]

NoCall == Call("none", U32(0), 0, <<>>, FALSE)

\* A failed FSC_ASSERT ends the program: nothing but the call record changes.
AssertFails(op, hash) ==
    /\ call' = Call(op, hash, 0, <<>>, TRUE)
    /\ prev' = [op |-> call.op, nfreed |-> Len(call.freed)]
    /\ UNCHANGED <<ht, arrays, heap, iterator, yielded, inserted, first_pos, init_bc>>

\* The cvars at their defaults, no mod loaded, no server connected.
DefaultCfg ==
    [pure_state |-> 0, fs_read_inactive_mods |-> 1, fs_list_inactive_mods |-> 1,
     fs_servercfg_listlimit |-> 0, com_basegame |-> Str_baseq3, current_mod_dir |-> <<>>,
     fs_servercfg |-> [string |-> <<>>, modificationCount |-> 0], little_endian |-> TRUE,
     com_standalone |-> 0]

\* static unsigned char table[256], zeroed at program start
ZeroSortTable == [i \in 0..255 |-> 0]

\* No call is made after a failed assertion.
Running == ~call.assert_failed

InitHT ==
    /\ ht = ZeroTable
    /\ arrays = [a \in ArrayIds |-> <<>>]
    /\ heap = [e \in EntryIds |-> NullEntry]
    /\ iterator = NoIterator
    /\ yielded = <<>>
    /\ inserted = {}
    /\ first_pos = <<>>
    /\ init_bc = [bucket_count |-> 0, buckets |-> 0]
    /\ call = NoCall
    /\ prev = [op |-> "none", nfreed |-> 0]
    /\ cfg = DefaultCfg
    /\ servercfg = ServercfgStart
    /\ sort_table = ZeroSortTable
    /\ fsfiles = <<>>

HtInitialize(bucket_count) ==
    IF bucket_count <= 0
    THEN AssertFails("fs_hashtable_initialize", U32(0))
    ELSE /\ FreeArrayIds(arrays, ht) # {}
         /\ LET r == fs_hashtable_initialize(ht, arrays, bucket_count)
            IN  /\ ht' = r.ht
                /\ arrays' = r.arrays
                /\ init_bc' = [bucket_count |-> r.ht.bucket_count, buckets |-> r.ht.buckets]
         /\ inserted' = {}
         /\ first_pos' = <<>>
         /\ iterator' = NoIterator
         /\ yielded' = <<>>
         /\ call' = Call("fs_hashtable_initialize", U32(0), 0, <<>>, FALSE)
         /\ prev' = [op |-> call.op, nfreed |-> Len(call.freed)]
         /\ UNCHANGED heap

\* The caller allocates the entry, as pk3_list_insert does, and hands it over.
HtInsert(hash) ==
    IF ht.bucket_count <= 0
    THEN AssertFails("fs_hashtable_insert", hash)
    ELSE /\ FreeEntryIds(heap) # {}
         /\ LET entry == Min(FreeEntryIds(heap))
                r == fs_hashtable_insert(ht, arrays,
                        [heap EXCEPT ![entry].alloc = TRUE, ![entry].hash = hash], entry, hash)
            IN  /\ ht' = r.ht
                /\ arrays' = r.arrays
                /\ heap' = r.heap
                /\ inserted' = inserted \cup {entry}
                /\ call' = Call("fs_hashtable_insert", U32(0), entry, <<>>, FALSE)
         /\ prev' = [op |-> call.op, nfreed |-> Len(call.freed)]
         /\ iterator' = NoIterator
         /\ yielded' = <<>>
         /\ UNCHANGED <<first_pos, init_bc>>

HtIterate(hash, iterate_all) ==
    /\ iterator' = fs_hashtable_iterate(ht, hash, iterate_all)
    /\ yielded' = <<>>
    /\ call' = Call("fs_hashtable_iterate", U32(0), 0, <<>>, FALSE)
    /\ prev' = [op |-> call.op, nfreed |-> Len(call.freed)]
    /\ UNCHANGED <<ht, arrays, heap, inserted, first_pos, init_bc>>

HtNext ==
    /\ iterator.active
    /\ ~iterator.done
    /\ LET r == fs_hashtable_next(ht, arrays, heap, iterator)
       IN  /\ iterator' = r.it
           /\ yielded' = IF r.ret = 0 THEN yielded ELSE Append(yielded, r.ret)
           /\ call' = Call("fs_hashtable_next", U32(0), r.ret, <<>>, FALSE)
    /\ prev' = [op |-> call.op, nfreed |-> Len(call.freed)]
    /\ UNCHANGED <<ht, arrays, heap, inserted, first_pos, init_bc>>

HtReset ==
    /\ LET r == fs_hashtable_reset(ht, arrays, heap)
       IN  /\ ht' = r.ht
           /\ arrays' = r.arrays
           /\ heap' = r.heap
           /\ call' = Call("fs_hashtable_reset", U32(0), IF r.double_free THEN 1 ELSE 0,
                           r.freed, FALSE)
    /\ prev' = [op |-> call.op, nfreed |-> Len(call.freed)]
    /\ inserted' = {}
    /\ first_pos' = <<>>
    /\ iterator' = NoIterator
    /\ yielded' = <<>>
    /\ UNCHANGED init_bc

HtFree ==
    /\ LET r == fs_hashtable_free(ht, arrays, heap)
       IN  /\ ht' = r.ht
           /\ arrays' = r.arrays
           /\ heap' = r.heap
           /\ call' = Call("fs_hashtable_free", U32(0), IF r.double_free THEN 1 ELSE 0,
                           r.freed, FALSE)
    /\ prev' = [op |-> call.op, nfreed |-> Len(call.freed)]
    /\ inserted' = {}
    /\ first_pos' = <<>>
    /\ init_bc' = [bucket_count |-> 0, buckets |-> 0]
    /\ iterator' = NoIterator
    /\ yielded' = <<>>

\* "Valid for an uninitialized hash table": the callers initialize a zeroed table.
HtInitializeCall == \E bucket_count \in 0..MaxBuckets :
    Running /\ ht.bucket_count = 0 /\ HtInitialize(bucket_count) /\ UNCHANGED fsvars
HtInsertCall == \E hash \in HashKeys : Running /\ HtInsert(hash) /\ UNCHANGED fsvars
HtIterateCall == \E hash \in HashKeys, iterate_all \in BOOLEAN :
    Running /\ HtIterate(hash, iterate_all) /\ UNCHANGED fsvars
HtNextCall == Running /\ HtNext /\ UNCHANGED fsvars
HtResetCall == Running /\ HtReset /\ UNCHANGED fsvars
HtFreeCall == Running /\ HtFree /\ UNCHANGED fsvars

NextHT ==
    \/ HtInitializeCall
    \/ HtInsertCall
    \/ HtIterateCall
    \/ HtNextCall
    \/ HtResetCall
    \/ HtFreeCall

SpecHT == InitHT /\ [][NextHT]_vars


-----------------------------------------------------------------------------
(* The calls on a pk3 list *)

FirstHashes == {first_pos[i].hash : i \in 1..Len(first_pos)}

PkInitialize(bucket_count) ==
    \* pk3_list_initialize is fs_hashtable_initialize on the list's table
    HtInitialize(bucket_count)

PkInsert(hash) ==
    IF ht.bucket_count <= 0
    THEN AssertFails("fs_hashtable_insert", hash)
    ELSE
    /\ PkNeedsEntry(ht, arrays, heap, hash) => FreeEntryIds(heap) # {}
    /\ LET r == pk3_list_insert(ht, arrays, heap, hash)
       IN  /\ ht' = r.ht
           /\ arrays' = r.arrays
           /\ heap' = r.heap
           /\ first_pos' = IF hash \in FirstHashes THEN first_pos
                           ELSE Append(first_pos,
                                   [hash |-> hash,
                                    pos |-> pk3_list_lookup(r.ht, r.arrays, r.heap, hash)])
    \* ret: what pk3_list_lookup returned at the start of the call
    /\ call' = Call("pk3_list_insert", hash, pk3_list_lookup(ht, arrays, heap, hash), <<>>, FALSE)
    /\ prev' = [op |-> call.op, nfreed |-> Len(call.freed)]
    /\ UNCHANGED <<iterator, yielded, inserted, init_bc>>

PkLookup(hash) ==
    /\ call' = Call("pk3_list_lookup", hash, pk3_list_lookup(ht, arrays, heap, hash), <<>>, FALSE)
    /\ prev' = [op |-> call.op, nfreed |-> Len(call.freed)]
    /\ UNCHANGED <<ht, arrays, heap, iterator, yielded, inserted, first_pos, init_bc>>

PkFree ==
    \* pk3_list_free is fs_hashtable_free without a free_entry callback
    HtFree

PkInitializeCall == \E bucket_count \in 0..MaxBuckets :
    Running /\ ht.bucket_count = 0 /\ PkInitialize(bucket_count) /\ UNCHANGED fsvars
PkInsertCall == \E hash \in HashKeys : Running /\ PkInsert(hash) /\ UNCHANGED fsvars
PkLookupCall == \E hash \in HashKeys : Running /\ PkLookup(hash) /\ UNCHANGED fsvars
PkFreeCall == Running /\ PkFree /\ UNCHANGED fsvars

NextPk ==
    \/ PkInitializeCall
    \/ PkInsertCall
    \/ PkLookupCall
    \/ PkFreeCall

SpecPk == InitHT /\ [][NextPk]_vars


-----------------------------------------------------------------------------
(* Properties of the pk3 list *)

Lookup(hash) == pk3_list_lookup(ht, arrays, heap, hash)

\* C1 First-insertion-wins: every hash inserted since the list was initialized is
\* looked up at the position it was given at its first insertion, whatever was
\* inserted afterwards (the same hash again included), and the element count is the
\* number of distinct hashes: a repeated insertion adds nothing.
C1_FirstInsertionWins ==
    /\ \A i \in 1..Len(first_pos) :
          /\ first_pos[i].pos # 0
          /\ Lookup(first_pos[i].hash) = first_pos[i].pos
    /\ ht.element_count = Len(first_pos)
    /\ (call.op = "pk3_list_insert" /\ ~call.assert_failed /\ call.ret # 0)
          => Lookup(call.hash) = call.ret

\* A hash was inserted, then another one, then the first one again.
C1_Witness ==
    /\ call.op = "pk3_list_insert"
    /\ call.ret = 1
    /\ prev.op = "pk3_list_insert"
    /\ Len(first_pos) >= 2
    /\ call.hash = first_pos[1].hash

\* C2 Position density: with K distinct hashes inserted, the i-th of them in order of
\* first insertion is at position i, so the positions are exactly 1..K, and a hash
\* that was never inserted is looked up as 0.
C2_PositionDensity ==
    /\ \A i \in 1..Len(first_pos) : Lookup(first_pos[i].hash) = i
    /\ {Lookup(h) : h \in FirstHashes} = 1..Len(first_pos)
    /\ \A h \in HashKeys \ FirstHashes : Lookup(h) = 0
    /\ \A i, j \in 1..Len(first_pos) : first_pos[i].hash = first_pos[j].hash => i = j

\* Three distinct hashes are in the list, two of them in the same bucket, and one was
\* inserted twice.
C2_Witness ==
    /\ Len(first_pos) = 3
    /\ ht.bucket_count = 2
    /\ call.op = "pk3_list_insert"
    /\ call.ret # 0
    /\ \E i, j \in 1..3 : i # j /\ BucketIndex(ht, first_pos[i].hash) = BucketIndex(ht, first_pos[j].hash)


-----------------------------------------------------------------------------
(* Properties of the hash table *)

\* The entries linked from entry on, following the next pointers.
RECURSIVE ChainFrom(_, _)
ChainFrom(hp, entry) ==
    IF entry = 0 THEN <<>> ELSE <<entry>> \o ChainFrom(hp, hp[entry].next)

\* The chain of bucket b (0-based), read from the bucket array.
Chain(b) == ChainFrom(heap, Buckets(ht, arrays)[b + 1])

Occurrences(seq, x) == Cardinality({i \in 1..Len(seq) : seq[i] = x})

\* A targeted iteration run to its end: fs_hashtable_iterate with iterate_all = false,
\* then fs_hashtable_next until it returns 0.
TargetedIteration(hash) == Drain(ht, arrays, heap, fs_hashtable_iterate(ht, hash, FALSE))

IterateAll == Drain(ht, arrays, heap, fs_hashtable_iterate(ht, U32(0), TRUE))

\* C3 Hash index bucket invariant: on an initialized table every entry inserted since
\* the table was last emptied is linked exactly once, in bucket hash % bucket_count and
\* in no other; a targeted iteration with the entry's hash returns it exactly once and
\* returns only entries of that bucket, also when it is made call by call; and
\* bucket_count is still the one fs_hashtable_initialize set.
C3_BucketInvariant ==
    ht.bucket_count > 0 =>
        /\ ht.bucket_count = init_bc.bucket_count
        /\ \A e \in inserted : \A b \in 0..(ht.bucket_count - 1) :
              Occurrences(Chain(b), e) = IF b = U32Mod(heap[e].hash, ht.bucket_count) THEN 1 ELSE 0
        /\ \A e \in inserted :
              /\ Occurrences(TargetedIteration(heap[e].hash), e) = 1
              /\ \A i \in 1..Len(TargetedIteration(heap[e].hash)) :
                    U32Mod(heap[TargetedIteration(heap[e].hash)[i]].hash, ht.bucket_count)
                        = U32Mod(heap[e].hash, ht.bucket_count)
        /\ (iterator.active /\ ~iterator.iterate_all) =>
              /\ \A i \in 1..Len(yielded) :
                    U32Mod(heap[yielded[i]].hash, ht.bucket_count)
                        = U32Mod(iterator.hash, ht.bucket_count)
              /\ iterator.done => yielded = TargetedIteration(iterator.hash)
        /\ ht.element_count = Cardinality(inserted)

\* Three entries are in a table of two buckets, two of them with different hashes in
\* one bucket, and a targeted iteration for that bucket has been run call by call to
\* its end.
C3_Witness ==
    /\ ht.bucket_count = 2
    /\ Cardinality(inserted) = 3
    /\ iterator.active /\ ~iterator.iterate_all /\ iterator.done
    /\ Len(yielded) = 2
    /\ heap[yielded[1]].hash # heap[yielded[2]].hash
    /\ call.op = "fs_hashtable_next"

AllBucketsEmpty == \A b \in 1..ht.bucket_count : Buckets(ht, arrays)[b] = 0

\* C10 Idempotent reset: after fs_hashtable_reset on an initialized table, and again
\* after a second fs_hashtable_reset right behind it, the element count is 0, every
\* bucket is empty, an iteration over all buckets returns nothing, the bucket count and
\* the bucket array are those the table was initialized with, no entry was released
\* that was not allocated, and the second call released no entry at all.
C10_IdempotentReset ==
    (call.op = "fs_hashtable_reset" /\ init_bc.bucket_count > 0) =>
        /\ ht.element_count = 0
        /\ AllBucketsEmpty
        /\ IterateAll = <<>>
        /\ ht.bucket_count = init_bc.bucket_count
        /\ ht.buckets = init_bc.buckets
        /\ Len(arrays[ht.buckets]) = ht.bucket_count
        /\ call.ret = 0
        /\ \A i, j \in 1..Len(call.freed) : call.freed[i] = call.freed[j] => i = j
        /\ \A e \in EntryIds : ~heap[e].alloc
        /\ prev.op = "fs_hashtable_reset" => call.freed = <<>>

\* A table of two buckets held at least two entries, was reset, and was reset again.
C10_Witness ==
    /\ call.op = "fs_hashtable_reset"
    /\ prev.op = "fs_hashtable_reset"
    /\ prev.nfreed >= 2
    /\ ht.bucket_count = 2


-----------------------------------------------------------------------------
(* The calls of the file disabled check *)

MaxLevel == 2       \* fs_read_inactive_mods and fs_list_inactive_mods are in 0..MaxLevel

\* A pk3 list after pk3_list_initialize and pk3_list_insert of the hashes in order.
RECURSIVE InsertAll(_, _)
InsertAll(pl, hashes) ==
    IF hashes = <<>> THEN pl
    ELSE InsertAll(pk3_list_insert(pl.ht, pl.arrays, pl.heap, Head(hashes)), Tail(hashes))

Pk3ListOf(hashes) ==
    LET i == fs_hashtable_initialize(ZeroTable, [a \in ArrayIds |-> <<>>], MaxBuckets)
    IN  InsertAll([ht |-> i.ht, arrays |-> i.arrays, heap |-> [e \in EntryIds |-> NullEntry]],
                  hashes)

connected_server_pure_list == [ht |-> ht, arrays |-> arrays, heap |-> heap]

\* The pure lists a server sends, the hashes and the mod directories of the files.
OtherHash == U32(1)
PureLists == {<<OtherHash>>, <<core_hashes[2], core_hashes[1]>>}
FileHashes == {core_hashes[1], OtherHash}
ModDirs == {Str_baseq3, Str_ABC, Str_xyz}

Pk3sOnDisk == {DirectFile(m, Str_other, Str_dot_pk3, h, FALSE, <<>>) : m \in ModDirs, h \in FileHashes}
FilesInPk3s == {Pk3File(p, Str_default, Str_dot_cfg, FALSE, U32(0)) : p \in Pk3sOnDisk}
Files == Pk3sOnDisk \cup FilesInPk3s

Cfgs ==
    [pure_state : {0, 1, 2},
     fs_read_inactive_mods : 0..MaxLevel,
     fs_list_inactive_mods : 0..MaxLevel,
     fs_servercfg_listlimit : {0, 1, 2},
     com_basegame : {Str_baseq3},
     current_mod_dir : {<<>>},
     fs_servercfg : {[string |-> s, modificationCount |-> 0] : s \in {<<>>, Str_abc_xyz}},
     little_endian : {TRUE},
     com_standalone : {0}]

InitFd ==
    /\ cfg \in Cfgs
    /\ \E hashes \in PureLists :
          LET pl == Pk3ListOf(hashes)
          IN  ht = pl.ht /\ arrays = pl.arrays /\ heap = pl.heap
    /\ iterator = NoIterator
    /\ yielded = <<>>
    /\ inserted = {}
    /\ first_pos = <<>>
    /\ init_bc = [bucket_count |-> ht.bucket_count, buckets |-> ht.buckets]
    /\ call = NoCall
    /\ prev = [op |-> "none", nfreed |-> 0]
    /\ servercfg = ServercfgStart
    /\ sort_table = ZeroSortTable
    /\ fsfiles = <<>>

\* fs_file_disabled(file, checks); the record keeps the servercfg state it started from.
FdCall ==
    /\ call.op = "none"
    /\ \E file \in Files, checks \in 0..31 :
       \E r \in {fs_file_disabled(cfg, connected_server_pure_list, servercfg, file, checks)} :
        /\ call' = [op |-> "fs_file_disabled", file |-> file, checks |-> checks,
                    ret |-> r.ret, assert_failed |-> FALSE]
        /\ servercfg' = r.sc
        /\ UNCHANGED <<htvars, prev, cfg, sort_table, fsfiles>>

\* The caller goes on.
Return ==
    /\ call.op # "none"
    /\ ~call.assert_failed
    /\ call' = NoCall
    /\ UNCHANGED <<htvars, prev, cfg, servercfg, sort_table, fsfiles>>

NextFd == FdCall \/ Return

SpecFd == InitFd /\ [][NextFd]_vars

\* The servercfg folders as parsed from the current fs_servercfg.
FoldersNow == fs_servercfg_update_state(servercfg, cfg)

\* What makes each check trigger for a file, taken by itself.
PureListTriggers(file) ==
    cfg.pure_state = 1 /\ get_pk3_list_position(connected_server_pure_list, file) = 0
ReadInactiveTriggers(file) ==
    inactive_mod_file_disabled(cfg, connected_server_pure_list, FoldersNow, file,
                               cfg.fs_read_inactive_mods, FALSE).ret
ReadInactiveIgnoreTriggers(file) ==
    inactive_mod_file_disabled(cfg, connected_server_pure_list, FoldersNow, file,
                               cfg.fs_read_inactive_mods, TRUE).ret
ListInactiveTriggers(file) ==
    inactive_mod_file_disabled(cfg, connected_server_pure_list, FoldersNow, file,
                               ListLevel(cfg), FALSE).ret
ServercfgLimitTriggers(file) == ServercfgLimitCheck(cfg, FoldersNow, file).ret

CheckOrder == <<FD_CHECK_PURE_LIST, FD_CHECK_READ_INACTIVE_MODS,
                FD_CHECK_READ_INACTIVE_MODS_IGNORE_SERVERCFG, FD_CHECK_LIST_INACTIVE_MODS,
                FD_CHECK_LIST_SERVERCFG_LIMIT>>

Triggers(file, check) ==
    CASE check = FD_CHECK_PURE_LIST -> PureListTriggers(file)
      [] check = FD_CHECK_READ_INACTIVE_MODS -> ReadInactiveTriggers(file)
      [] check = FD_CHECK_READ_INACTIVE_MODS_IGNORE_SERVERCFG -> ReadInactiveIgnoreTriggers(file)
      [] check = FD_CHECK_LIST_INACTIVE_MODS -> ListInactiveTriggers(file)
      [] OTHER -> ServercfgLimitTriggers(file)

\* The places in CheckOrder of the checks that are in the mask and trigger.
Triggered(file, checks) ==
    {i \in 1..Len(CheckOrder) : HasFlag(checks, CheckOrder[i]) /\ Triggers(file, CheckOrder[i])}

\* C4 Disabled-check priority: fs_file_disabled returns the value of the first check,
\* in the order pure list, read inactive mods, read inactive mods ignoring servercfg,
\* list inactive mods, servercfg list limit, that is in the mask and triggers; it
\* returns 0 exactly when none does; and when the pure list check and an inactive mod
\* check both trigger and are both in the mask, it returns the pure list check.
C4_DisabledCheckPriority ==
    call.op = "fs_file_disabled" =>
        /\ (Triggered(call.file, call.checks) = {}) <=> (call.ret = 0)
        /\ Triggered(call.file, call.checks) # {} =>
              call.ret = CheckOrder[Min(Triggered(call.file, call.checks))]
        /\ \A inactive \in {FD_CHECK_READ_INACTIVE_MODS,
                            FD_CHECK_READ_INACTIVE_MODS_IGNORE_SERVERCFG,
                            FD_CHECK_LIST_INACTIVE_MODS} :
              (/\ HasFlag(call.checks, FD_CHECK_PURE_LIST)
               /\ HasFlag(call.checks, inactive)
               /\ PureListTriggers(call.file)
               /\ Triggers(call.file, inactive)) => call.ret = FD_CHECK_PURE_LIST

\* A file of a pk3 that is not on the pure list and lies in an inactive mod was checked
\* with every check in the mask, while connected to a pure server.
C4_Witness ==
    /\ call.op = "fs_file_disabled"
    /\ call.checks = 31
    /\ call.file.sourcetype = FSC_SOURCETYPE_PK3
    /\ ht.element_count > 0
    /\ PureListTriggers(call.file)
    /\ ReadInactiveTriggers(call.file)
    /\ ListInactiveTriggers(call.file)
    /\ call.ret = FD_CHECK_PURE_LIST


-----------------------------------------------------------------------------
(* The calls of the core pak verification *)

MaxFiles == 2       \* files in the index

Pak0 == DirectFile(Str_baseq3, Str_pak(0), Str_dot_pk3, core_hashes[1], FALSE, <<>>)

\* The files an installation may hold: pak0 as shipped, a pak0 of other content, pak0
\* under another name, pak1, a pak0 of the missionpack, its pak1 with other content,
\* and default.cfg inside pak0.
IndexFiles ==
    {Pak0,
     DirectFile(Str_baseq3, Str_pak(0), Str_dot_pk3, OtherHash, FALSE, <<>>),
     DirectFile(Str_baseq3, Str_other, Str_dot_pk3, core_hashes[1], FALSE, <<>>),
     DirectFile(Str_baseq3, Str_pak(1), Str_dot_pk3, core_hashes[2], FALSE, <<>>),
     DirectFile(Str_missionpack, Str_pak(0), Str_dot_pk3, missionpack_hashes[1], FALSE, <<>>),
     DirectFile(Str_missionpack, Str_pak(1), Str_dot_pk3, OtherHash, FALSE, <<>>),
     Pk3File(Pak0, Str_default, Str_dot_cfg, FALSE, U32(0))}

Indexes == UNION {[1..n -> IndexFiles] : n \in 0..MaxFiles}

InitVerify ==
    /\ fsfiles \in Indexes
    /\ \E basegame \in {Str_baseq3, Str_xyz}, level \in 0..MaxLevel :
          cfg = [DefaultCfg EXCEPT !.com_basegame = basegame, !.fs_read_inactive_mods = level]
    /\ ht = ZeroTable
    /\ arrays = [a \in ArrayIds |-> <<>>]
    /\ heap = [e \in EntryIds |-> NullEntry]
    /\ iterator = NoIterator
    /\ yielded = <<>>
    /\ inserted = {}
    /\ first_pos = <<>>
    /\ init_bc = [bucket_count |-> 0, buckets |-> 0]
    /\ call = NoCall
    /\ prev = [op |-> "none", nfreed |-> 0]
    /\ servercfg = ServercfgStart
    /\ sort_table = ZeroSortTable

CheckCorePaks ==
    /\ call.op = "none"
    /\ \E r \in {fs_check_core_paks(cfg, connected_server_pure_list, servercfg, fsfiles)} :
        /\ call' = [op |-> "fs_check_core_paks", standalone |-> r.standalone,
                    core_states |-> r.core_states,
                    missionpack_states |-> r.missionpack_states,
                    core_warnings |-> r.core_warnings,
                    missionpack_warnings |-> r.missionpack_warnings,
                    default_cfg_warning |-> r.default_cfg_warning,
                    assert_failed |-> FALSE]
        /\ cfg' = IF r.standalone THEN [cfg EXCEPT !.com_standalone = 1] ELSE cfg
        /\ servercfg' = r.sc
        /\ UNCHANGED <<htvars, prev, sort_table, fsfiles>>

NextVerify == CheckCorePaks \/ Return

SpecVerify == InitVerify /\ [][NextVerify]_vars

-----------------------------------------------------------------------------
(* Properties of the core pak verification *)

\* File i of the index is usable for reading.
Usable(i) ==
    fs_file_disabled(cfg, connected_server_pure_list, FoldersNow, fsfiles[i],
                     FD_CHECK_READ_INACTIVE_MODS).ret = 0

\* A usable pk3 on disk with the expected name in the expected directory.
NamedPk3s(mod, filename) ==
    {i \in 1..Len(fsfiles) : /\ fsfiles[i].sourcetype = FSC_SOURCETYPE_DIRECT
                             /\ StrIEq(fsfiles[i].name, filename)
                             /\ StrIEq(fsfiles[i].ext, Str_dot_pk3)
                             /\ StrIEq(fsfiles[i].mod_dir, mod)
                             /\ Usable(i)}

\* A usable pk3 on disk with the expected hash.
HashedPk3s(hash) == {i \in Pk3Iterator(fsfiles, hash) : Usable(i)}

\* The states of the verifier as the code reports them.
ReportedAs(warning) ==
    CASE warning.print = "" -> "exact"
      [] warning.print = "NOTE: misnamed, found correct file" -> "misnamed"
      [] warning.print = "WARNING: incorrect hash, found correct file" -> "wrong-hash"
      [] warning.print = "WARNING: incorrect hash" -> "wrong-hash"
      [] OTHER -> "missing"

IsExact(st) == st.name_match # 0 /\ st.name_match = st.hash_match
IsMisnamed(st) == st.hash_match # 0 /\ st.name_match = 0
IsMissing(st) == st.hash_match = 0 /\ st.name_match = 0
\* wrong-hash as the claim defines it, and as the code reports it
IsWrongHashBothFound(st) ==
    st.name_match # 0 /\ st.hash_match # 0 /\ st.name_match # st.hash_match
IsWrongHash(st) == st.name_match # 0 /\ st.name_match # st.hash_match

ExactlyOne(bools) == Cardinality({i \in 1..Len(bools) : bools[i]}) = 1

\* The expected paks with their states, and those generate_pak_warnings was called for.
ExpectedPaks ==
    [i \in 1..(Len(core_hashes) + Len(missionpack_hashes)) |->
        IF i <= Len(core_hashes)
        THEN [mod |-> Str_baseq3, filename |-> Str_pak(i - 1), hash |-> core_hashes[i],
              state |-> call.core_states[i],
              warned |-> i <= Len(call.core_warnings),
              warning |-> IF i <= Len(call.core_warnings) THEN call.core_warnings[i]
                          ELSE [print |-> "", popup |-> FALSE]]
        ELSE LET j == i - Len(core_hashes)
             IN  [mod |-> Str_missionpack, filename |-> Str_pak(j - 1),
                  hash |-> missionpack_hashes[j],
                  state |-> call.missionpack_states[j],
                  warned |-> j <= Len(call.missionpack_warnings),
                  warning |-> IF j <= Len(call.missionpack_warnings)
                              THEN call.missionpack_warnings[j]
                              ELSE [print |-> "", popup |-> FALSE]]]

\* C5 as claimed: with wrong-hash defined as "both found and distinct", every pair
\* get_pak_state returns is in exactly one of the four states and is reported as it.
C5_ClassificationAsClaimed ==
    call.op = "fs_check_core_paks" =>
        \A i \in 1..Len(ExpectedPaks) :
            LET e == ExpectedPaks[i]
            IN  /\ ExactlyOne(<<IsExact(e.state), IsMisnamed(e.state),
                                IsWrongHashBothFound(e.state), IsMissing(e.state)>>)
                /\ e.warned =>
                      /\ (ReportedAs(e.warning) = "exact") <=> IsExact(e.state)
                      /\ (ReportedAs(e.warning) = "misnamed") <=> IsMisnamed(e.state)
                      /\ (ReportedAs(e.warning) = "wrong-hash") <=> IsWrongHashBothFound(e.state)
                      /\ (ReportedAs(e.warning) = "missing") <=> IsMissing(e.state)

\* C5 Verifier classification, amended: wrong-hash is "a name match exists and the hash
\* match is not the same object (another file, or none)". With that, every pair
\* get_pak_state returns is in exactly one of the four states, generate_pak_warnings
\* reports that state, the pair is what the index holds (a usable pk3 of the name and
\* the hash: exact; else one of the name: wrong-hash; else one of the hash: misnamed;
\* else missing), and the popup gets a line exactly when no hash match exists.
C5_Classification ==
    call.op = "fs_check_core_paks" =>
        \A i \in 1..Len(ExpectedPaks) :
            LET e == ExpectedPaks[i]
                named == NamedPk3s(e.mod, e.filename)
                hashed == HashedPk3s(e.hash)
            IN  /\ ExactlyOne(<<IsExact(e.state), IsMisnamed(e.state),
                                IsWrongHash(e.state), IsMissing(e.state)>>)
                /\ IsExact(e.state) <=> (named \cap hashed # {})
                /\ IsWrongHash(e.state) <=> (named # {} /\ named \cap hashed = {})
                /\ IsMisnamed(e.state) <=> (named = {} /\ hashed # {})
                /\ IsMissing(e.state) <=> (named = {} /\ hashed = {})
                /\ e.warned =>
                      /\ (ReportedAs(e.warning) = "exact") <=> IsExact(e.state)
                      /\ (ReportedAs(e.warning) = "misnamed") <=> IsMisnamed(e.state)
                      /\ (ReportedAs(e.warning) = "wrong-hash") <=> IsWrongHash(e.state)
                      /\ (ReportedAs(e.warning) = "missing") <=> IsMissing(e.state)
                      /\ e.warning.popup <=> (e.state.hash_match = 0)

\* pak0 is on disk with other content and nothing has its hash, pak1 is absent: the
\* first was reported with an incorrect hash, the second as not found.
C5_Witness ==
    /\ call.op = "fs_check_core_paks"
    /\ ~call.standalone
    /\ call.core_states[1].name_match # 0
    /\ call.core_states[1].hash_match = 0
    /\ call.core_warnings[1].print = "WARNING: incorrect hash"
    /\ call.core_warnings[2].print = "WARNING: not found"

\* No expected pak, of the base set or of the missionpack, has a usable pk3 of its hash.
NoHashMatch ==
    /\ \A i \in 1..Len(core_hashes) : HashedPk3s(core_hashes[i]) = {}
    /\ \A i \in 1..Len(missionpack_hashes) : HashedPk3s(missionpack_hashes[i]) = {}

NothingReported ==
    /\ call.core_warnings = <<>>
    /\ call.missionpack_warnings = <<>>
    /\ ~call.default_cfg_warning

-----------------------------------------------------------------------------
(* File Sorting Functions *)

\* A stream (fsc_stream_t): data[1..position] are the bytes written, size the bytes
\* the buffer holds.
Stream(size) == [data |-> <<>>, position |-> 0, size |-> size]

\* The last loop of get_string_sort_table over the entries hi down to lo (the upper
\* half, then the lower half): an entry that is 0 gets the value, which then goes down
\* by one (unsigned char); without an entry that is 0 nothing is assigned.
\* entries: the entries lo..hi after the loop.
RECURSIVE FillUnset(_, _, _, _)
FillUnset(table, lo, hi, value) ==
    IF \A i \in lo..hi : table[i] # 0
    THEN [entries |-> [k \in 1..(hi - lo + 1) |-> table[lo + k - 1]], value |-> value]
    ELSE IF lo = hi
    THEN [entries |-> <<value>>, value |-> (value + 255) % 256]
    ELSE Bind(FillUnset(table, ((lo + hi) \div 2) + 1, hi, value), LAMBDA upper :
         Bind(FillUnset(table, lo, (lo + hi) \div 2, upper.value), LAMBDA lower :
         [entries |-> lower.entries \o upper.entries, value |-> lower.value]))

\* get_string_sort_table: initialized is not static, so every call runs the loops on
\* the static table: 250 downwards for z..a and for Z..A, on downwards for 9..0, and
\* on downwards from entry 255 to entry 0 for the entries that are still 0.
SortTableReversed(table) ==
    Bind([i \in 0..255 |->
             IF i >= 97 /\ i <= 122 THEN 225 + (122 - i)
             ELSE IF i >= 65 /\ i <= 90 THEN 225 + (90 - i)
             ELSE IF i >= 48 /\ i <= 57 THEN 224 - (57 - i)
             ELSE table[i]], LAMBDA letters :
    Bind(FillUnset(letters, 0, 255, 214), LAMBDA filled :
    [i \in 0..255 |-> filled.entries[i + 1]]))
get_string_sort_table(table) ==
    Bind([i \in 0..255 |->
             IF i >= 97 /\ i <= 122 THEN 250 - (122 - i)
             ELSE IF i >= 65 /\ i <= 90 THEN 250 - (90 - i)
             ELSE IF i >= 48 /\ i <= 57 THEN 224 - (57 - i)
             ELSE table[i]], LAMBDA letters :
    Bind(FillUnset(letters, 0, 255, 214), LAMBDA filled :
    [i \in 0..255 |-> filled.entries[i + 1]]))

server_pure_precedence_plain(pl, file) ==
    IF file.sourcetype = FSC_SOURCETYPE_PK3
    THEN U32(PureListLookup(pl, fsc_get_base_file(file).pk3_hash))
    ELSE U32(0)
server_pure_precedence(pl, file) ==
    IF file.sourcetype = FSC_SOURCETYPE_PK3
    THEN LET index == PureListLookup(pl, fsc_get_base_file(file).pk3_hash)
         IN  IF index # 0 THEN U32Not(U32(index)) ELSE U32(0)
    ELSE U32(0)

get_current_mod_precedence(mod_type) ==
    IF mod_type >= MODTYPE_OVERRIDE_DIRECTORY THEN mod_type ELSE 0

core_pak_precedence(c, file, mod_type) ==
    IF mod_type < MODTYPE_OVERRIDE_DIRECTORY
    THEN core_pk3_position(c, fsc_get_base_file(file).pk3_hash)
    ELSE 0

basegame_dir_precedence(mod_type) == IF mod_type = MODTYPE_BASE THEN 1 ELSE 0

\* The byte fs_write_sort_string ends the string with.
TerminatorSwapped(prioritize_shorter) == IF prioritize_shorter THEN 0 ELSE 255
Terminator(prioritize_shorter) == IF prioritize_shorter THEN 255 ELSE 0

\* The while loop of fs_write_sort_string from byte i of the string on.
RECURSIVE WriteSortChars(_, _, _, _)
WriteSortChars(table, string, i, output) ==
    IF i > Len(string) \/ string[i] = 0 \/ output.position >= output.size THEN output
    ELSE WriteSortChars(table, string, i + 1,
            [output EXCEPT !.data = Append(@, table[string[i]]), !.position = @ + 1])

\* fs_write_sort_string: the stream and the static table after the call.
fs_write_sort_string(table, string, output, prioritize_shorter) ==
    Bind(get_string_sort_table(table), LAMBDA sort_table_ :
    Bind(WriteSortChars(sort_table_, string, 1, output), LAMBDA out :
    [output |-> IF out.position < out.size
                THEN [out EXCEPT !.data = Append(@, Terminator(prioritize_shorter)),
                                 !.position = @ + 1]
                ELSE out,
     table |-> sort_table_]))

\* The bytes of an unsigned int, most significant first, and the value they make.
Bytes4(value) == <<value[1] \div 256, value[1] % 256, value[2] \div 256, value[2] % 256>>
FromBytes4(b) == <<b[1] * 256 + b[2], b[3] * 256 + b[4]>>
Reverse4(b) == <<b[4], b[3], b[2], b[1]>>

\* ((value << 8) & 0xFF00FF00) | ((value >> 8) & 0xFF00FF), then the halves exchanged
ByteSwapNone(value) == value
ByteSwap(value) == FromBytes4(Reverse4(Bytes4(value)))

\* *((unsigned int *)(output->data + output->position)) = value, in host byte order
StoreHostOrder(value, little_endian) ==
    IF little_endian THEN Reverse4(Bytes4(value)) ELSE Bytes4(value)

\* fs_write_sort_value; test is 1, so *(char *)&test is 1 on a little endian host.
fs_write_sort_value(value, output, little_endian) ==
    LET swapped == IF little_endian THEN ByteSwap(value) ELSE value
    IN  IF output.position + 3 < output.size
        THEN [output EXCEPT !.data = @ \o StoreHostOrder(swapped, little_endian),
                            !.position = @ + 4]
        ELSE output

\* write_sort_pk3_source_filename: the stream and the static table after the call.
write_sort_pk3_source_filename(c, table, file, output) ==
    IF file.sourcetype = FSC_SOURCETYPE_DIRECT /\ file.pk3dir # <<>>
    THEN Bind(fs_write_sort_string(table, file.pk3dir, output, FALSE), LAMBDA w :
              [output |-> fs_write_sort_value(U32(1), w.output, c.little_endian),
               table |-> w.table])
    ELSE IF file.sourcetype = FSC_SOURCETYPE_PK3
    THEN Bind(fs_write_sort_string(table, fsc_get_base_file(file).name, output, FALSE),
              LAMBDA w : [output |-> fs_write_sort_value(U32(0), w.output, c.little_endian),
                          table |-> w.table])
    ELSE [output |-> output, table |-> table]

\* (file->flags & FSC_FILEFLAG_DLPK3) || (the same flag of the source pk3)
DownloadFolderPk3(file) ==
    file.dlpk3 \/ (file.sourcetype = FSC_SOURCETYPE_PK3 /\ fsc_get_base_file(file).dlpk3)

\* The fields of fs_generate_core_sort_key up to the download folder flag.
CoreSortFields(c, pl, file, mod_type, servercfg_precedence, use_server_pure_list) ==
    LET current_mod_precedence == get_current_mod_precedence(mod_type)
    IN  (IF use_server_pure_list THEN <<server_pure_precedence(pl, file)>> ELSE <<>>)
        \o <<U32(servercfg_precedence), U32(current_mod_precedence)>>
        \o (IF servercfg_precedence = 0 /\ current_mod_precedence = 0
            THEN <<U32(core_pak_precedence(c, file, mod_type))>> ELSE <<>>)
        \o <<U32(basegame_dir_precedence(mod_type)),
             U32(IF DownloadFolderPk3(file) THEN 0 ELSE 1)>>

\* fs_write_sort_value for each value in turn.
RECURSIVE WriteSortValues(_, _, _)
WriteSortValues(values, output, little_endian) ==
    IF values = <<>> THEN output
    ELSE WriteSortValues(Tail(values),
                         fs_write_sort_value(Head(values), output, little_endian),
                         little_endian)

\* fs_generate_core_sort_key: the stream, the static servercfg state and the static
\* sort table after the call.
fs_generate_core_sort_key(c, pl, sc, table, file, output, use_server_pure_list) ==
    Bind(fs_servercfg_priority(sc, c, fsc_get_mod_dir(file)), LAMBDA p :
    Bind(WriteSortValues(CoreSortFields(c, pl, file,
                                        fs_get_mod_type(c, fsc_get_mod_dir(file)),
                                        p.ret, use_server_pure_list),
                         output, c.little_endian), LAMBDA out :
    IF \/ file.sourcetype = FSC_SOURCETYPE_PK3
       \/ (file.sourcetype = FSC_SOURCETYPE_DIRECT /\ file.pk3dir # <<>>)
    THEN Bind(write_sort_pk3_source_filename(c, table, file,
                  fs_write_sort_value(U32(0), out, c.little_endian)), LAMBDA w :
         [output |-> fs_write_sort_value(
                         IF file.sourcetype = FSC_SOURCETYPE_PK3
                         THEN U32Not(file.header_position) ELSE U32Not(U32(0)),
                         w.output, c.little_endian),
          sc |-> p.sc, table |-> w.table])
    ELSE [output |-> fs_write_sort_value(U32(1), out, c.little_endian),
          sc |-> p.sc, table |-> table]))

\* fsc_memcmp(key1, key2, n) > 0 for n the shorter of the two positions: key1 is the
\* greater key of the unsigned byte-wise comparison.
KeyGreater(key1, key2) ==
    \E i \in 1..Min({key1.position, key2.position}) :
        /\ key1.data[i] > key2.data[i]
        /\ \A j \in 1..(i - 1) : key1.data[j] = key2.data[j]

-----------------------------------------------------------------------------
(* The calls of the file sorting functions *)

\* The buffers of fs_compare_pk3_source hold 1024 bytes.
SortKeyBufferSize == 1024

Str_Abc == <<65, 98, 99>>           \* "Abc"
Str_abd == <<97, 98, 100>>          \* "abd"
Str_ab == <<97, 98>>                \* "ab"
Str_ab_high == <<97, 98, 255>>      \* "ab\xff"
Str_ab_low == <<97, 98, 1>>         \* "ab\x01"

SortStrings == {Str_ab, Str_abc, Str_Abc, Str_ABC, Str_abd, Str_ab_high, Str_ab_low}

SortModDirs == {Str_baseq3, Str_abc, Str_xyz, Str_other}

\* In each mod directory: a file on disk, a file of a pk3dir, and a file of a pk3
\* with a core pak hash, with another hash, and with that from the download folder.
SortFiles ==
    {DirectFile(m, Str_default, Str_dot_cfg, U32(0), FALSE, <<>>) : m \in SortModDirs}
    \cup {DirectFile(m, Str_default, Str_dot_cfg, U32(0), FALSE, Str_abc) : m \in SortModDirs}
    \cup {Pk3File(DirectFile(m, Str_other, Str_dot_pk3, h, FALSE, <<>>),
                  Str_default, Str_dot_cfg, FALSE, U32(0)) :
             m \in SortModDirs, h \in FileHashes}
    \cup {Pk3File(DirectFile(m, Str_other, Str_dot_pk3, OtherHash, TRUE, <<>>),
                  Str_default, Str_dot_cfg, FALSE, U32(0)) : m \in SortModDirs}

InitSort ==
    /\ \E le \in BOOLEAN, mod \in {<<>>, Str_xyz} :
          cfg = [DefaultCfg EXCEPT !.fs_servercfg.string = Str_abc_xyz,
                                   !.little_endian = le, !.current_mod_dir = mod]
    /\ LET pl == Pk3ListOf(<<core_hashes[2], core_hashes[1]>>)
       IN  ht = pl.ht /\ arrays = pl.arrays /\ heap = pl.heap
    /\ iterator = NoIterator
    /\ yielded = <<>>
    /\ inserted = {}
    /\ first_pos = <<>>
    /\ init_bc = [bucket_count |-> ht.bucket_count, buckets |-> ht.buckets]
    /\ call = NoCall
    /\ prev = NoCall
    /\ servercfg = ServercfgStart
    /\ sort_table = ZeroSortTable
    /\ fsfiles = <<>>

\* fs_generate_core_sort_key(file, output, use_server_pure_list) on an empty stream
SortKeyCall ==
    /\ call.op = "none"
    /\ \E file \in SortFiles, use_server_pure_list \in BOOLEAN :
       \E r \in {fs_generate_core_sort_key(cfg, connected_server_pure_list, servercfg,
                     sort_table, file, Stream(SortKeyBufferSize), use_server_pure_list)} :
        /\ call' = [op |-> "fs_generate_core_sort_key", file |-> file,
                    use_server_pure_list |-> use_server_pure_list,
                    output |-> r.output, assert_failed |-> FALSE]
        /\ servercfg' = r.sc
        /\ sort_table' = r.table
        /\ UNCHANGED <<htvars, prev, cfg, fsfiles>>

\* fs_write_sort_string(string, output, prioritize_shorter) on an empty stream
SortStringCall ==
    /\ call.op = "none"
    /\ \E string \in SortStrings, prioritize_shorter \in BOOLEAN :
       \E r \in {fs_write_sort_string(sort_table, string, Stream(SortKeyBufferSize),
                                      prioritize_shorter)} :
        /\ call' = [op |-> "fs_write_sort_string", string |-> string,
                    prioritize_shorter |-> prioritize_shorter,
                    output |-> r.output, assert_failed |-> FALSE]
        /\ sort_table' = r.table
        /\ UNCHANGED <<htvars, prev, cfg, servercfg, fsfiles>>

\* The caller keeps the key to compare it with the next one.
SortReturn ==
    /\ call.op # "none"
    /\ prev' = call
    /\ call' = NoCall
    /\ UNCHANGED <<htvars, cfg, servercfg, sort_table, fsfiles>>

NextSort == SortKeyCall \/ SortStringCall \/ SortReturn

SpecSort == InitSort /\ [][NextSort]_vars

-----------------------------------------------------------------------------
(* Properties of the sort keys *)

\* The priority-folder rank of a mod directory: table length - index of the first
\* folder of that name in the current fs_servercfg, 0 without one.
PriorityFolderRank(mod_dir) ==
    LET folders == Tokens(cfg.fs_servercfg.string)
        matches == {i \in 1..Len(folders) : StrIEq(folders[i], mod_dir)}
    IN  IF matches = {} THEN 0 ELSE Len(folders) - (Min(matches) - 1)

WithModDir(file, mod_dir) ==
    IF file.sourcetype = FSC_SOURCETYPE_PK3
    THEN [file EXCEPT !.source_pk3.mod_dir = mod_dir]
    ELSE [file EXCEPT !.mod_dir = mod_dir]

\* Two files that are the same but for their mod directories, which are of the same
\* mod tier and of different rank.
DifferOnlyInRank(file1, file2) ==
    /\ WithModDir(file1, fsc_get_mod_dir(file2)) = file2
    /\ fs_get_mod_type(cfg, fsc_get_mod_dir(file1)) = fs_get_mod_type(cfg, fsc_get_mod_dir(file2))
    /\ PriorityFolderRank(fsc_get_mod_dir(file1)) # PriorityFolderRank(fsc_get_mod_dir(file2))

TwoSortKeys ==
    /\ call.op = "fs_generate_core_sort_key"
    /\ prev.op = "fs_generate_core_sort_key"
    /\ call.use_server_pure_list = prev.use_server_pure_list

\* C7 Sort key monotonicity: of the keys fs_generate_core_sort_key writes for two files
\* that differ only in the priority-folder rank of their mod directory, with the same
\* use_server_pure_list, the key of the file with the higher rank is the greater one of
\* the unsigned byte-wise comparison.
C7_SortKeyMonotonicity ==
    (/\ TwoSortKeys
     /\ DifferOnlyInRank(call.file, prev.file)
     /\ PriorityFolderRank(fsc_get_mod_dir(call.file)) >
            PriorityFolderRank(fsc_get_mod_dir(prev.file)))
        => KeyGreater(call.output, prev.output)

\* With the folders "abc xyz", the key of a file of a pk3 in abc (rank 2) is greater
\* than the key of the same file in xyz (rank 1), after the field of the pure list.
C7_Witness ==
    /\ TwoSortKeys
    /\ call.use_server_pure_list
    /\ call.file.sourcetype = FSC_SOURCETYPE_PK3
    /\ fsc_get_mod_dir(call.file) = Str_abc
    /\ fsc_get_mod_dir(prev.file) = Str_xyz
    /\ DifferOnlyInRank(call.file, prev.file)
    /\ PriorityFolderRank(Str_abc) = 2
    /\ PriorityFolderRank(Str_xyz) = 1
    /\ KeyGreater(call.output, prev.output)

IsLetter(c) == (c >= 65 /\ c <= 90) \/ (c >= 97 /\ c <= 122)
Letters(string) == \A i \in 1..Len(string) : IsLetter(string[i])

\* Both strings are of letters, and at their first difference without case the
\* letter of s is the smaller one of the alphabet.
AlphabeticallyBefore(s, t) ==
    /\ Letters(s)
    /\ Letters(t)
    /\ \E i \in 1..Min({Len(s), Len(t)}) :
          /\ ToLower(s[i]) < ToLower(t[i])
          /\ \A j \in 1..(i - 1) : ToLower(s[j]) = ToLower(t[j])

TwoSortStrings ==
    /\ call.op = "fs_write_sort_string"
    /\ prev.op = "fs_write_sort_string"

\* C8 as claimed: the key of the alphabetically smaller string is the winning one,
\* that is the greater one of the byte-wise comparison.
C8_CollationAsClaimed ==
    (TwoSortStrings /\ AlphabeticallyBefore(call.string, prev.string))
        => KeyGreater(call.output, prev.output)

\* C8 Collation correctness, amended: for strings s, t of letters whose first difference
\* without case has the letter of s alphabetically smaller than the letter of t, the
\* key of s is the smaller one of the byte-wise comparison, so the key of t is the
\* winning one ("abd" wins over "Abc"); and strings that differ only in case get the
\* same key.
C8_Collation ==
    TwoSortStrings =>
        /\ AlphabeticallyBefore(call.string, prev.string)
              => KeyGreater(prev.output, call.output)
        /\ (/\ StrIEq(call.string, prev.string)
            /\ call.prioritize_shorter = prev.prioritize_shorter)
              => call.output = prev.output

\* The keys of "Abc" and of "abd" were written, and the one of "abd" is the greater.
C8_Witness ==
    /\ TwoSortStrings
    /\ call.string = Str_Abc
    /\ prev.string = Str_abd
    /\ call.output.position = 4
    /\ KeyGreater(prev.output, call.output)

StrictPrefix(s, t) == Len(s) < Len(t) /\ SubSeq(t, 1, Len(s)) = s
NoNul(string) == \A i \in 1..Len(string) : string[i] # 0

\* C9 Prefix termination: for s a strict prefix of t, both without NUL bytes, the key of
\* s written with prioritize_shorter = false is the smaller one of the byte-wise
\* comparison with the key of t, and with prioritize_shorter = true for both it is the
\* greater one; the table value of every non-NUL byte is strictly between the
\* terminators 0 and 255.
C9_PrefixTermination ==
    /\ (/\ TwoSortStrings
        /\ StrictPrefix(call.string, prev.string)
        /\ NoNul(call.string) /\ NoNul(prev.string)) =>
            /\ ~call.prioritize_shorter => KeyGreater(prev.output, call.output)
            /\ (call.prioritize_shorter /\ prev.prioritize_shorter)
                  => KeyGreater(call.output, prev.output)
    /\ call.op = "fs_write_sort_string" =>
            \A b \in 1..255 : sort_table[b] > 0 /\ sort_table[b] < 255

\* The keys of "ab" and of "ab\xff" were written with prioritize_shorter = true, and
\* the one of "ab" is the greater.
C9_Witness ==
    /\ TwoSortStrings
    /\ call.string = Str_ab
    /\ prev.string = Str_ab_high
    /\ call.prioritize_shorter /\ prev.prioritize_shorter
    /\ call.output.data[3] = 255
    /\ KeyGreater(call.output, prev.output)

-----------------------------------------------------------------------------
(* Listing and reading of inactive mods *)

\* The lower of the read level and the list level.
LowerLevel ==
    IF cfg.fs_read_inactive_mods <= cfg.fs_list_inactive_mods
    THEN cfg.fs_read_inactive_mods ELSE cfg.fs_list_inactive_mods

\* fs_file_disabled(file, FD_CHECK_LIST_INACTIVE_MODS) in the current state.
ListDisabled(file) ==
    fs_file_disabled(cfg, connected_server_pure_list, servercfg, file,
                     FD_CHECK_LIST_INACTIVE_MODS).ret

\* C11 Listing permissiveness never exceeds read permissiveness: a file that
\* fs_file_disabled disables for the read inactive mods check is disabled for the list
\* inactive mods check as well, and the list check disables exactly the files the
\* inactive mod rule disables at the lower of the read level and the list level.
C11_ListWithinRead ==
    call.op = "fs_file_disabled" =>
        /\ (call.checks = FD_CHECK_READ_INACTIVE_MODS /\ call.ret # 0)
              => ListDisabled(call.file) # 0
        /\ call.checks = FD_CHECK_LIST_INACTIVE_MODS =>
              ((call.ret # 0) <=>
                  inactive_mod_file_disabled(cfg, connected_server_pure_list, FoldersNow,
                                             call.file, LowerLevel, FALSE).ret)

\* A file was disabled for reading while the list level is above the read level and
\* would allow it by itself.
C11_Witness ==
    /\ call.op = "fs_file_disabled"
    /\ call.checks = FD_CHECK_READ_INACTIVE_MODS
    /\ call.ret # 0
    /\ cfg.fs_list_inactive_mods > cfg.fs_read_inactive_mods
    /\ ~inactive_mod_file_disabled(cfg, connected_server_pure_list, FoldersNow,
                                   call.file, cfg.fs_list_inactive_mods, FALSE).ret
    /\ ListDisabled(call.file) = FD_CHECK_LIST_INACTIVE_MODS

-----------------------------------------------------------------------------
(* The calls of fs_write_sort_value *)

\* Values with each byte in turn the one that decides.
SortValues ==
    {<<0, 0>>, <<0, 1>>, <<0, 2>>, <<0, 255>>, <<0, 256>>, <<0, 65535>>, <<1, 0>>,
     <<255, 65535>>, <<256, 0>>, <<258, 772>>, <<65535, 65535>>}

InitValue ==
    /\ \E le \in BOOLEAN : cfg = [DefaultCfg EXCEPT !.little_endian = le]
    /\ ht = ZeroTable
    /\ arrays = [a \in ArrayIds |-> <<>>]
    /\ heap = [e \in EntryIds |-> NullEntry]
    /\ iterator = NoIterator
    /\ yielded = <<>>
    /\ inserted = {}
    /\ first_pos = <<>>
    /\ init_bc = [bucket_count |-> 0, buckets |-> 0]
    /\ call = NoCall
    /\ prev = NoCall
    /\ servercfg = ServercfgStart
    /\ sort_table = ZeroSortTable
    /\ fsfiles = <<>>

\* fs_write_sort_value(value, output) on an empty stream
SortValueCall ==
    /\ call.op = "none"
    /\ \E value \in SortValues :
          call' = [op |-> "fs_write_sort_value", value |-> value,
                   output |-> fs_write_sort_value(value, Stream(SortKeyBufferSize),
                                                  cfg.little_endian),
                   assert_failed |-> FALSE]
    /\ UNCHANGED <<htvars, prev, cfg, servercfg, sort_table, fsfiles>>

NextValue == SortValueCall \/ SortReturn

SpecValue == InitValue /\ [][NextValue]_vars

\* a < b for unsigned ints
U32Less(a, b) == a[1] < b[1] \/ (a[1] = b[1] /\ a[2] < b[2])

\* The four bytes of an unsigned int, the most significant one first.
MostSignificantFirst(value) ==
    <<value[1] \div 256, value[1] % 256, value[2] \div 256, value[2] % 256>>

TwoSortValues ==
    /\ call.op = "fs_write_sort_value"
    /\ prev.op = "fs_write_sort_value"

\* C12 Byte-comparable values: fs_write_sort_value appends the four bytes of the value,
\* most significant first, on either host byte order; so the bytes of a compare with
\* the bytes of b by the unsigned byte-wise comparison as a compares with b.
C12_ByteComparable ==
    /\ call.op = "fs_write_sort_value" =>
          /\ call.output.position = 4
          /\ call.output.data = MostSignificantFirst(call.value)
          /\ fs_write_sort_value(call.value, Stream(SortKeyBufferSize),
                                 ~cfg.little_endian) = call.output
    /\ TwoSortValues =>
          /\ KeyGreater(call.output, prev.output) <=> U32Less(prev.value, call.value)
          /\ KeyGreater(prev.output, call.output) <=> U32Less(call.value, prev.value)
          /\ (call.output.data = prev.output.data) <=> (call.value = prev.value)

\* On a little endian host 65536 was written after 65535, and its bytes 0 1 0 0 are the
\* greater key.
C12_Witness ==
    /\ TwoSortValues
    /\ cfg.little_endian
    /\ call.value = <<1, 0>>
    /\ prev.value = <<0, 65535>>
    /\ call.output.data = <<0, 1, 0, 0>>
    /\ KeyGreater(call.output, prev.output)

-----------------------------------------------------------------------------
(* fs_hashtable_initialize on any hash table *)

\* fs_hashtable_initialize(hashtable, bucket_count), whatever the table holds
HtInitializeAnyCall == \E bucket_count \in -1..MaxBuckets :
    Running /\ HtInitialize(bucket_count) /\ UNCHANGED fsvars

NextReinit ==
    \/ HtInitializeAnyCall
    \/ HtInsertCall
    \/ HtResetCall
    \/ HtFreeCall

SpecReinit == InitHT /\ [][NextReinit]_vars

\* C13 Initialize precondition: a call of fs_hashtable_initialize on an initialized
\* table (bucket_count > 0) fails an assertion and leaves the table, its bucket array
\* and its entries as they are, and a call that does not fail an assertion was given a
\* positive bucket count; so the bucket array of a live table is never replaced.
C13_InitializeAsserts ==
    [][call'.op = "fs_hashtable_initialize" =>
          IF ht.bucket_count > 0
          THEN call'.assert_failed /\ UNCHANGED <<ht, arrays, heap>>
          ELSE call'.assert_failed \/ ht'.bucket_count > 0]_vars

-----------------------------------------------------------------------------
(* Sort keys in short buffers *)

MaxKeySize == 10    \* the short buffers hold 0..MaxKeySize bytes

\* fs_generate_core_sort_key(file, output, use_server_pure_list) on an empty stream of
\* a short buffer
SortKeyShortCall ==
    /\ call.op = "none"
    /\ \E file \in SortFiles, use_server_pure_list \in BOOLEAN, size \in 0..MaxKeySize :
       \E r \in {fs_generate_core_sort_key(cfg, connected_server_pure_list, servercfg,
                     sort_table, file, Stream(size), use_server_pure_list)} :
        /\ call' = [op |-> "fs_generate_core_sort_key", file |-> file,
                    use_server_pure_list |-> use_server_pure_list,
                    output |-> r.output, assert_failed |-> FALSE]
        /\ servercfg' = r.sc
        /\ sort_table' = r.table
        /\ UNCHANGED <<htvars, prev, cfg, fsfiles>>

NextShort == SortKeyShortCall \/ Return

SpecShort == InitSort /\ [][NextShort]_vars

\* The key of the same file in a buffer of the given size, in the current state.
KeyOfSize(file, use_server_pure_list, size) ==
    fs_generate_core_sort_key(cfg, connected_server_pure_list, servercfg, sort_table,
                              file, Stream(size), use_server_pure_list).output

IsPrefix(s, t) == Len(s) <= Len(t) /\ SubSeq(t, 1, Len(s)) = s

\* C14 Graceful truncation: the write position of a key never exceeds the size of its
\* buffer, and the key fs_generate_core_sort_key writes into a buffer is a prefix of
\* the key it writes for the same file into every larger buffer.
C14_GracefulTruncation ==
    call.op = "fs_generate_core_sort_key" =>
        /\ call.output.position <= call.output.size
        /\ Len(call.output.data) = call.output.position
        /\ \A size \in ((call.output.size + 1)..MaxKeySize) \cup {SortKeyBufferSize} :
              size > call.output.size =>
                 IsPrefix(call.output.data,
                          KeyOfSize(call.file, call.use_server_pure_list, size).data)

-----------------------------------------------------------------------------
(* The inactive mod rule *)

\* The hash is the hash of an entry of the pure list.
OnPureList(hash) == \E e \in EntryIds : heap[e].alloc /\ heap[e].hash = hash

\* The hash is one of the core paks of the current game directory.
IsCorePak(hash) ==
    LET paks == IF StrIEq(FS_GetCurrentGameDir(cfg), Str_missionpack)
                THEN FS_CORE_PAKS_TEAMARENA ELSE FS_CORE_PAKS
    IN  \E i \in 1..Len(paks) : paks[i] = hash

\* What the inactive mod rule allows at a level.
AllowedAtLevel(file, level, ignore_servercfg) ==
    \/ level >= 2
    \/ fs_get_mod_type(cfg, fsc_get_mod_dir(file)) > MODTYPE_INACTIVE
    \/ /\ level = 1
       /\ \/ OnPureList(fsc_get_base_file(file).pk3_hash)
          \/ IsCorePak(fsc_get_base_file(file).pk3_hash)
    \/ ~ignore_servercfg /\ PriorityFolderRank(fsc_get_mod_dir(file)) # 0

\* C15 Inactive-mod rule: the read inactive mods checks of fs_file_disabled, which are
\* inactive_mod_file_disabled at the read level with the ignore flag off and on, leave
\* a file usable exactly when the level is 2 or more, or the mod tier of the file is
\* above inactive, or the level is 1 and the hash of its pk3 is on the pure list or of
\* a core pak, or the ignore flag is off and its mod directory has a priority-folder
\* rank; and a file usable at a level is usable at every higher level.
C15_InactiveModRule ==
    (/\ call.op = "fs_file_disabled"
     /\ call.checks \in {FD_CHECK_READ_INACTIVE_MODS,
                         FD_CHECK_READ_INACTIVE_MODS_IGNORE_SERVERCFG}) =>
        LET ignore == call.checks = FD_CHECK_READ_INACTIVE_MODS_IGNORE_SERVERCFG
        IN  /\ (call.ret = 0) <=> AllowedAtLevel(call.file, cfg.fs_read_inactive_mods, ignore)
            /\ \A level \in -1..(MaxLevel + 1) :
                  ~inactive_mod_file_disabled(cfg, connected_server_pure_list, FoldersNow,
                                              call.file, level, ignore).ret
                     <=> AllowedAtLevel(call.file, level, ignore)
            /\ call.ret = 0 =>
                  \A level \in cfg.fs_read_inactive_mods..(MaxLevel + 1) :
                     ~inactive_mod_file_disabled(cfg, connected_server_pure_list, FoldersNow,
                                                 call.file, level, ignore).ret

\* At level 1 a file of a core pak in an inactive mod without rank, not on the pure
\* list, was found usable.
C15_Witness ==
    /\ call.op = "fs_file_disabled"
    /\ call.checks = FD_CHECK_READ_INACTIVE_MODS
    /\ cfg.fs_read_inactive_mods = 1
    /\ fs_get_mod_type(cfg, fsc_get_mod_dir(call.file)) = MODTYPE_INACTIVE
    /\ PriorityFolderRank(fsc_get_mod_dir(call.file)) = 0
    /\ ~OnPureList(fsc_get_base_file(call.file).pk3_hash)
    /\ IsCorePak(fsc_get_base_file(call.file).pk3_hash)
    /\ call.ret = 0

-----------------------------------------------------------------------------
(* The name match of get_pak_state *)

\* C16 Name-match selection: when usable pk3s on disk carry the expected name in the
\* expected directory and none of them has the expected hash, the name match
\* get_pak_state returns is the first of them in the order of the index.
C16_NameMatchIsFirst ==
    call.op = "fs_check_core_paks" =>
        \A i \in 1..Len(ExpectedPaks) :
            LET e == ExpectedPaks[i]
                named == NamedPk3s(e.mod, e.filename)
            IN  (/\ named # {}
                 /\ \A n \in named : fsfiles[n].pk3_hash # e.hash) =>
                    e.state.name_match = Min(named)

-----------------------------------------------------------------------------
(* Calls of fs_servercfg_priority between changes of fs_servercfg *)

MaxModCount == 3

\* 33 folders "0" "1" ... "P", one more than the table holds.
Str_33_folders == [i \in 1..65 |-> IF i % 2 = 1 THEN 48 + (i \div 2) ELSE 32]

ServercfgStrings == {<<>>, Str_abc_xyz, <<120, 121, 122, 32, 32, 97, 98, 99>>, Str_33_folders}

\* "abc", "XYZ", "0" (the first of the 33 folders), "P" (the last of them), "other"
PriorityModDirs == {Str_abc, <<88, 89, 90>>, <<48>>, <<80>>, Str_other}

InitPriority ==
    /\ \E string \in ServercfgStrings :
          cfg = [DefaultCfg EXCEPT !.fs_servercfg.string = string]
    /\ ht = ZeroTable
    /\ arrays = [a \in ArrayIds |-> <<>>]
    /\ heap = [e \in EntryIds |-> NullEntry]
    /\ iterator = NoIterator
    /\ yielded = <<>>
    /\ inserted = {}
    /\ first_pos = <<>>
    /\ init_bc = [bucket_count |-> 0, buckets |-> 0]
    /\ call = NoCall
    /\ prev = [op |-> "none", nfreed |-> 0]
    /\ servercfg = ServercfgStart
    /\ sort_table = ZeroSortTable
    /\ fsfiles = <<>>

\* The cvar system sets fs_servercfg to another string and counts the modification.
ServercfgSet ==
    /\ call.op = "none"
    /\ cfg.fs_servercfg.modificationCount < MaxModCount
    /\ \E string \in ServercfgStrings \ {cfg.fs_servercfg.string} :
          cfg' = [cfg EXCEPT !.fs_servercfg =
                     [string |-> string, modificationCount |-> @.modificationCount + 1]]
    /\ UNCHANGED <<htvars, call, prev, servercfg, sort_table, fsfiles>>

\* fs_servercfg_priority(mod_dir); parsed: the call recorded another modification count.
ServercfgPriorityCall ==
    /\ call.op = "none"
    /\ \E mod_dir \in PriorityModDirs :
       \E r \in {fs_servercfg_priority(servercfg, cfg, mod_dir)} :
        /\ call' = [op |-> "fs_servercfg_priority", mod_dir |-> mod_dir, ret |-> r.ret,
                    parsed |-> r.sc.cvar_mod_count # servercfg.cvar_mod_count,
                    assert_failed |-> FALSE]
        /\ servercfg' = r.sc
        /\ UNCHANGED <<htvars, prev, cfg, sort_table, fsfiles>>

NextPriority == ServercfgSet \/ ServercfgPriorityCall \/ Return

SpecPriority == InitPriority /\ [][NextPriority]_vars

\* The first 32 tokens of a string, as the table holds them.
FirstTokens(string) ==
    LET tokens == Tokens(string)
    IN  IF Len(tokens) > 32 THEN SubSeq(tokens, 1, 32) ELSE tokens

\* The rank of a mod directory in a table of folders: the length of the table minus the
\* 0-based index of the first folder of that name, 0 without one.
RankIn(folders, mod_dir) ==
    IF \E j \in 1..Len(folders) : StrIEq(folders[j], mod_dir)
    THEN LET i == CHOOSE i \in 0..(Len(folders) - 1) :
                     /\ StrIEq(folders[i + 1], mod_dir)
                     /\ \A k \in 0..(i - 1) : ~StrIEq(folders[k + 1], mod_dir)
         IN  Len(folders) - i
    ELSE 0

\* C17 Priority-folder memoization: the folder table changes only in a call of
\* fs_servercfg_priority that finds the modification count of fs_servercfg different
\* from the one recorded at the last parse (the first call finds it so), and is then
\* the first 32 tokens of the string; the call returns the length of the table minus
\* the index of the first folder equal to mod_dir without regard to case, 0 without
\* one; and as every change of the string changes the count, the rank is the one the
\* current string gives.
C17_Memoization ==
    [][/\ servercfg' # servercfg =>
             /\ call'.op = "fs_servercfg_priority"
             /\ cfg.fs_servercfg.modificationCount # servercfg.cvar_mod_count
       /\ call'.op = "fs_servercfg_priority" =>
             /\ cfg.fs_servercfg.modificationCount = servercfg.cvar_mod_count
                   => servercfg' = servercfg
             /\ cfg.fs_servercfg.modificationCount # servercfg.cvar_mod_count
                   => /\ servercfg'.folders = FirstTokens(cfg.fs_servercfg.string)
                      /\ servercfg'.cvar_mod_count = cfg.fs_servercfg.modificationCount
             /\ servercfg = ServercfgStart
                   => servercfg'.cvar_mod_count = cfg.fs_servercfg.modificationCount
             /\ servercfg'.folder_count = Len(servercfg'.folders)
             /\ servercfg'.folder_count <= 32
             /\ call'.ret = RankIn(servercfg'.folders, call'.mod_dir)
             /\ call'.ret = RankIn(FirstTokens(cfg.fs_servercfg.string), call'.mod_dir)]_vars

\* After a change of fs_servercfg and a parse, a call found the count as recorded
\* and returned the rank of the first of 33 folders from the table of 32.
C17_Witness ==
    /\ call.op = "fs_servercfg_priority"
    /\ cfg.fs_servercfg.modificationCount > 0
    /\ cfg.fs_servercfg.string = Str_33_folders
    /\ call.mod_dir = <<48>>
    /\ call.ret = 32
    /\ ~call.parsed

-----------------------------------------------------------------------------
(* The pure list in the sort key *)

\* Files of pk3s at the positions 2 and 1 of the pure list and of a pk3 not on it, in a
\* mod directory without rank and in one with rank, and files on disk.
PureSortFiles ==
    {Pk3File(DirectFile(m, Str_other, Str_dot_pk3, h, FALSE, <<>>),
             Str_default, Str_dot_cfg, FALSE, U32(0)) :
        m \in {Str_baseq3, Str_abc}, h \in {core_hashes[1], core_hashes[2], OtherHash}}
    \cup {DirectFile(m, Str_default, Str_dot_cfg, U32(0), FALSE, <<>>) : m \in {Str_baseq3, Str_abc}}

\* fs_generate_core_sort_key(file, output, use_server_pure_list) on an empty stream
PureSortKeyCall ==
    /\ call.op = "none"
    /\ \E file \in PureSortFiles, use_server_pure_list \in BOOLEAN :
       \E r \in {fs_generate_core_sort_key(cfg, connected_server_pure_list, servercfg,
                     sort_table, file, Stream(SortKeyBufferSize), use_server_pure_list)} :
        /\ call' = [op |-> "fs_generate_core_sort_key", file |-> file,
                    use_server_pure_list |-> use_server_pure_list,
                    output |-> r.output, assert_failed |-> FALSE]
        /\ servercfg' = r.sc
        /\ sort_table' = r.table
        /\ UNCHANGED <<htvars, prev, cfg, fsfiles>>

NextPure == PureSortKeyCall \/ SortReturn

SpecPure == InitSort /\ [][NextPure]_vars

\* The position on the pure list of the pk3 a file comes from, 0 for a file on disk and
\* for a pk3 that is not on the list.
ArchivePosition(file) ==
    IF file.sourcetype = FSC_SOURCETYPE_PK3 /\ OnPureList(file.source_pk3.pk3_hash)
    THEN heap[CHOOSE e \in EntryIds :
                  heap[e].alloc /\ heap[e].hash = file.source_pk3.pk3_hash].position
    ELSE 0

\* The bytes of the 32-bit inverse of a position below 256, most significant first, and
\* of 0 for no position.
InverseBytes(position) ==
    IF position = 0 THEN <<0, 0, 0, 0>> ELSE <<255, 255, 255, 255 - position>>

\* C18 Pure-list precedence in the sort key: with use_server_pure_list the key begins
\* with the 32-bit inverse of the position of the pk3 of the file on the pure list, 0
\* for a file on disk or a pk3 not on the list; of two files of pk3s on the list the one
\* at the lower position has the greater key whatever follows, and a file of a pk3 on
\* the list has a greater key than a file without position; without
\* use_server_pure_list the key is the same without this field.
C18_PureListPrecedence ==
    /\ (call.op = "fs_generate_core_sort_key" /\ call.use_server_pure_list) =>
          /\ call.output.position >= 4
          /\ SubSeq(call.output.data, 1, 4) = InverseBytes(ArchivePosition(call.file))
    /\ (/\ call.op = "fs_generate_core_sort_key"
        /\ prev.op = "fs_generate_core_sort_key"
        /\ call.use_server_pure_list
        /\ prev.use_server_pure_list
        /\ ArchivePosition(call.file) # 0
        /\ \/ ArchivePosition(call.file) < ArchivePosition(prev.file)
           \/ ArchivePosition(prev.file) = 0) =>
          KeyGreater(call.output, prev.output)
    /\ (/\ call.op = "fs_generate_core_sort_key"
        /\ prev.op = "fs_generate_core_sort_key"
        /\ call.file = prev.file
        /\ call.use_server_pure_list
        /\ ~prev.use_server_pure_list) =>
          call.output.data = SubSeq(call.output.data, 1, 4) \o prev.output.data

\* The key of a file of the pk3 at position 1, in a mod directory without rank, is
\* greater than the key of a file of the pk3 at position 2 in a mod directory of rank 2.
C18_Witness ==
    /\ call.op = "fs_generate_core_sort_key"
    /\ prev.op = "fs_generate_core_sort_key"
    /\ call.use_server_pure_list
    /\ prev.use_server_pure_list
    /\ ArchivePosition(call.file) = 1
    /\ ArchivePosition(prev.file) = 2
    /\ PriorityFolderRank(fsc_get_mod_dir(call.file)) = 0
    /\ PriorityFolderRank(fsc_get_mod_dir(prev.file)) = 2
    /\ SubSeq(call.output.data, 1, 4) = <<255, 255, 255, 254>>
    /\ SubSeq(prev.output.data, 1, 4) = <<255, 255, 255, 253>>
    /\ KeyGreater(call.output, prev.output)

-----------------------------------------------------------------------------
(* The scope of the pure list check *)

\* C19 Scope of the pure-list check: connected to a pure server and with the pure list
\* check in the mask, fs_file_disabled returns FD_CHECK_PURE_LIST exactly for the files
\* that are not from a pk3 or are from a pk3 whose hash is not on the pure list, so for
\* every file on disk whatever the list holds; when the pure state is not 1 it never
\* returns FD_CHECK_PURE_LIST.
C19_PureListScope ==
    call.op = "fs_file_disabled" =>
        /\ (HasFlag(call.checks, FD_CHECK_PURE_LIST) /\ cfg.pure_state = 1) =>
              /\ (call.ret = FD_CHECK_PURE_LIST) <=>
                    \/ call.file.sourcetype # FSC_SOURCETYPE_PK3
                    \/ ~OnPureList(call.file.source_pk3.pk3_hash)
              /\ call.file.sourcetype = FSC_SOURCETYPE_DIRECT => call.ret = FD_CHECK_PURE_LIST
        /\ cfg.pure_state # 1 => call.ret # FD_CHECK_PURE_LIST
        /\ ~HasFlag(call.checks, FD_CHECK_PURE_LIST) => call.ret # FD_CHECK_PURE_LIST

\* Connected to a pure server, a pk3 on disk whose own hash is on the pure list was
\* disabled by the pure list check.
C19_Witness ==
    /\ call.op = "fs_file_disabled"
    /\ cfg.pure_state = 1
    /\ HasFlag(call.checks, FD_CHECK_PURE_LIST)
    /\ call.file.sourcetype = FSC_SOURCETYPE_DIRECT
    /\ OnPureList(call.file.pk3_hash)
    /\ call.ret = FD_CHECK_PURE_LIST

=============================================================================
